---- MODULE Spec2Model ----
(***************************************************************************)
(* Model of the OBIS + Gemini integration service (obisGeminiService.ts,   *)
(* geminiApi.ts) and of the page handlers that call it.                    *)
(*                                                                         *)
(* One invocation of a public operation of OBISGeminiService is a chain of *)
(* awaits.  Every await is one action here: the Call action runs the code  *)
(* up to the first network request, ObisResponse / GeminiResponse run the  *)
(* continuation after a response up to the next request or to the return   *)
(* or throw.  The remote services are the environment: their responses are *)
(* chosen with \E from the bounded sets below.                             *)
(*                                                                         *)
(* Strings produced by the text service are the strings x^n; a text is     *)
(* represented by its length n, so substring(0, k) is Min(n, k).           *)
(* Messages of errors are sequences of fragments, concatenated with \o.    *)
(***************************************************************************)
EXTENDS Integers, Sequences, FiniteSets, TLC

VARIABLES
  apiKey,          \* GeminiApiService.apiKey (module-scope singleton)
  op,              \* public operation of the current invocation
  pc,              \* "idle", "awaitObis", "awaitGemini", "resolved", "rejected"
  step,            \* number of text-generation calls that have resolved
  scientificName,  \* argument; "" stands for an absent or empty name (both falsy)
  geometry,        \* argument; "" stands for absent
  description,     \* argument of getMarineInsightsForRegion; "" stands for absent
  limit,           \* argument of fetchOBISSpecies
  obisData,        \* local: the parsed OBIS response
  aiAnalysis,      \* local: text of the overall narrative
  insights,        \* local: texts of the aspect narratives received so far
  reqs,            \* every network request issued by the invocation, in order
  resps,           \* the response of the environment to each request, in order
  settled,         \* the value the promise resolved to, or the error it rejected with
  page,            \* the mounted page ("none" when only the service is modelled)
  handler,         \* position of the page's running handler ("idle" when none runs)
  loading,         \* loading (AIIntegration, Datasets) / analysisRunning (Analytics)
  loadingProgress, \* Datasets.tsx, Analytics.tsx state
  loadingMessage,  \* Datasets.tsx, Analytics.tsx state
  timerPending,    \* a setTimeout(..., 1000) of a finally clause has not fired yet
  toast,           \* last toast shown by a page handler
  speciesAnalysis, \* AIIntegration.tsx state
  regionAnalysis,  \* AIIntegration.tsx state
  aiResponses,     \* AIIntegration.tsx state: chatResponse, analysisResponse, quickInsights
  inflight,        \* AIIntegration.tsx: the handlers suspended at their await
  selectedDataset, \* Datasets.tsx state
  datasetAnalysis, \* Datasets.tsx state
  analysisResults, \* Analytics.tsx state
  shownObisData,   \* Analytics.tsx state obisData
  analysisLocal,   \* local `analysis` of a handler: the value its service call resolved to
  delivered,       \* how the service call awaited by the handler last settled
  analysedDataset, \* Datasets.tsx: the dataset whose analysis datasetAnalysis holds
  currentPage,     \* Datasets.tsx state
  totalDatasets,   \* Datasets.tsx state
  datasets,        \* Datasets.tsx state: how many datasets are listed
  statistics,      \* Datasets.tsx state
  listPc,          \* position of loadDatasets: "unmounted", "idle", "fetch", "delay"
  listResult,      \* local `result` of loadDatasets
  statsInFlight,   \* number of loadStatistics calls suspended at their await
  offsetRequested, \* offset argument of the last fetchOBISDatasets call
  systemStatus,    \* Dashboard.tsx state
  shownTitles,     \* titles of the toasts the Dashboard has shown
  dashResponse,    \* Dashboard.tsx local obisResponse
  now,             \* the clock that new Date() reads
  apiPc,           \* position of ApiService.request
  apiResponse,     \* ApiService.request local `response`
  apiResult,       \* how the promise of ApiService.request settled
  apiRequest,      \* the URL and method ApiService.request passed to fetch
  self,            \* which of two interleaved invocations the service variables belong to
  other            \* the locals of the other invocation, suspended at an await

svcVars == <<apiKey, op, pc, step, scientificName, geometry, description, limit, obisData,
             aiAnalysis, insights, reqs, resps, settled>>
dsVars == <<currentPage, totalDatasets, datasets, statistics, listPc, listResult,
            statsInFlight, offsetRequested>>
dashVars == <<systemStatus, shownTitles, dashResponse, now>>
apiVars == <<apiPc, apiResponse, apiResult, apiRequest>>
extVars == <<dsVars, dashVars, apiVars>>
pageVars == <<page, handler, loading, loadingProgress, loadingMessage, timerPending,
              toast, speciesAnalysis, regionAnalysis, aiResponses, inflight,
              selectedDataset, datasetAnalysis,
              analysisResults, shownObisData, analysisLocal, delivered,
              analysedDataset, extVars>>
concVars == <<self, other>>
vars == <<apiKey, op, pc, step, scientificName, geometry, description, limit,
          obisData,
          aiAnalysis, insights, reqs, resps, settled,
          page, handler, loading, loadingProgress, loadingMessage, timerPending,
          toast, speciesAnalysis, regionAnalysis, aiResponses, inflight,
          selectedDataset, datasetAnalysis,
          analysisResults, shownObisData, analysisLocal, delivered, self, other,
          analysedDataset, extVars>>

----------------------------------------------------------------------------
(* Bounds of the model                                                     *)

MaxRecords == 11
MaxTextLen == 501

----------------------------------------------------------------------------
(* Program constants                                                       *)

DefaultLimit == 100
RegionLimit == 50
QuickLimit == 20
PageSpeciesLimit == 50
OverallSample == 5
AspectSample == 10
QuickSample == 3
SummaryPrefix == 500
\* generateDetailedInsights without its last aspect
NumAspects_DropLast == 5 - 1

NumAspects == 5
Placeholder == "your-api-key-here"

Undefined == "undefined"
NoText == 0 - 1

Min(a, b) == IF a <= b THEN a ELSE b

----------------------------------------------------------------------------
(* JavaScript helpers                                                      *)

\* Array.prototype.slice(0, k)
Slice(s, k) == SubSeq(s, 1, Min(k, Len(s)))

\* String.prototype.substring(0, k) on the string x^n
Substring(n, k) == Min(n, k)

\* a thrown Error object
Err(msg) == [isError |-> TRUE, message |-> msg]

\* a thrown value that is not an Error
NonError == [isError |-> FALSE, message |-> <<>>]

NoError == [isError |-> FALSE, message |-> <<"-">>]

\* error.message read without the instanceof test
MessageOf_NoInstanceCheck(e) == e.message

\* error instanceof Error ? error.message : 'Unknown error'
MessageOf(e) == IF e.isError THEN e.message ELSE <<"Unknown error">>

TypeErr == Err(<<"Cannot read properties of undefined">>)
SyntaxErr == Err(<<"Unexpected token in JSON">>)
FetchErr == Err(<<"Failed to fetch">>)

----------------------------------------------------------------------------
(* Responses of the two remote services                                    *)
(* A response is [t, isError, ok, status, body]: t = "neterr" is a fetch   *)
(* that rejected (with an Error or with another value), t = "http" one     *)
(* that resolved.  body.parses says whether response.json() succeeds.      *)

Records(n) == [i \in 1..n |-> i]

StatusText(s) == IF s = 404 THEN "Not Found" ELSE "Internal Server Error"

\* the body of an OBIS occurrence response: total and results, either of
\* which a malformed body lacks (total = NoText stands for undefined)
ObisBody(p, tot, has, n) ==
  [parses |-> p, total |-> tot, hasResults |-> has, results |-> Records(n)]

NoData == ObisBody(FALSE, NoText, FALSE, 0)

Totals(n) == {0, n, n + 1}

ObisBodies(lim) ==
  UNION {{ObisBody(TRUE, tot, TRUE, n) : tot \in Totals(n)} :
            n \in 0..Min(MaxRecords, lim)}
  \cup {ObisBody(TRUE, NoText, FALSE, 0), NoData}

ObisResponses(lim) ==
  {[t |-> "neterr", isError |-> b, ok |-> FALSE, status |-> 0, body |-> NoData] :
      b \in BOOLEAN} \cup
  {[t |-> "http", isError |-> FALSE, ok |-> FALSE, status |-> s, body |-> NoData] :
      s \in {404, 500}} \cup
  {[t |-> "http", isError |-> FALSE, ok |-> TRUE, status |-> 200, body |-> b] :
      b \in ObisBodies(lim)}

TextLens == {0, MaxTextLen}

\* the body of a Gemini response.  errMessage is errorData.error?.message;
\* cands says how far data.candidates[0].content.parts[0].text exists:
\* "absent" (no candidates field), "empty" (candidates = []), "nocontent"
\* (candidates[0] without content.parts[0]), "notext" (parts[0] without a
\* text field), "text" (all present).
GeminiBody(p, em, c, txt) ==
  [parses |-> p, errMessage |-> em, cands |-> c, text |-> txt]

GeminiOkBodies ==
  {GeminiBody(FALSE, Undefined, "absent", NoText),
   GeminiBody(TRUE, Undefined, "absent", NoText),
   GeminiBody(TRUE, Undefined, "empty", NoText),
   GeminiBody(TRUE, Undefined, "nocontent", NoText)} \cup
  {GeminiBody(TRUE, Undefined, "text", n) : n \in TextLens}

\* parts[0] carries no text field, so parts[0].text is undefined (NoText)
NoTextBody == GeminiBody(TRUE, Undefined, "notext", NoText)

GeminiErrorBodies ==
  {GeminiBody(FALSE, Undefined, "absent", NoText),
   GeminiBody(TRUE, Undefined, "absent", NoText),
   GeminiBody(TRUE, "quota exceeded", "absent", NoText)}

GeminiResponses ==
  {[t |-> "neterr", isError |-> b, ok |-> FALSE, status |-> 0,
    body |-> GeminiBody(FALSE, Undefined, "absent", NoText)] : b \in BOOLEAN} \cup
  {[t |-> "http", isError |-> FALSE, ok |-> FALSE, status |-> 429, body |-> b] :
      b \in GeminiErrorBodies} \cup
  {[t |-> "http", isError |-> FALSE, ok |-> TRUE, status |-> 200, body |-> b] :
      b \in GeminiOkBodies}

----------------------------------------------------------------------------
(* Requests and prompts                                                    *)

Absent == "<absent>"

NoDataset == [title |-> "-", id |-> "-", description |-> "-", records |-> "-",
              spatial |-> "-", temporal |-> "-"]

\* a prompt is its template together with the values interpolated into it
Prompt(tpl, q, g, tot, ret, smp, an, d, ds) ==
  [template |-> tpl, query |-> q, geometry |-> g, total |-> tot, retrieved |-> ret,
   sample |-> smp, analysis |-> an, data |-> d, dataset |-> ds]

NoPrompt == Prompt("-", "-", "-", NoText, NoText, <<>>, NoText, NoData, NoDataset)

\* fetch(`${obisBaseUrl}/occurrence?${params}`): a parameter is appended only
\* when its argument is truthy
ObisRequest(name, geom, lim) ==
  [svc |-> "obis", path |-> "occurrence", limit |-> lim, offset |-> 0,
   scientificname |-> IF name # "" THEN name ELSE Absent,
   geometry |-> IF geom # "" THEN geom ELSE Absent,
   prompt |-> NoPrompt]

\* fetch(`${baseUrl}?key=${apiKey}`, {method: 'POST', body: {contents: [{parts: [{text: prompt}]}]}})
GeminiRequest(p) ==
  [svc |-> "gemini", path |-> "generateContent", limit |-> 0, offset |-> 0,
   scientificname |-> Absent, geometry |-> Absent, prompt |-> p]

Aspects == <<"species_diversity", "geographic_distribution", "conservation_status",
             "ecological_significance", "threats_and_recommendations">>

\* the overall prompt stamped with a number that differs between invocations
SpeciesPrompt_Stamped(data, name) ==
  Prompt("species-overall",
         IF name # "" THEN name ELSE "General marine species search",
         "-", data.total, Len(data.results), Slice(data.results, OverallSample),
         self, NoData, NoDataset)

\* analyzeSpeciesDataWithAI: the prompt
SpeciesPrompt(data, name) ==
  Prompt("species-overall",
         IF name # "" THEN name ELSE "General marine species search",
         "-", data.total, Len(data.results), Slice(data.results, OverallSample),
         NoText, NoData, NoDataset)

\* an aspect prompt embedding every retrieved record
AspectPrompt_WholePage(k, data) ==
  Prompt(Aspects[k], "-", "-", NoText, NoText, data.results, NoText, NoData, NoDataset)

\* generateDetailedInsights: the prompt of the k-th aspect
AspectPrompt(k, data) ==
  Prompt(Aspects[k], "-", "-", NoText, NoText, Slice(data.results, AspectSample),
         NoText, NoData, NoDataset)

\* the summary prompt embedding the whole overall narrative
SummaryPrompt_WholeAnalysis(data, analysis, name) ==
  Prompt("species-summary",
         IF name # "" THEN name ELSE "Marine species search",
         "-", data.total, NoText, <<>>, analysis, NoData, NoDataset)

\* generateSummary: the prompt
SummaryPrompt(data, analysis, name) ==
  Prompt("species-summary",
         IF name # "" THEN name ELSE "Marine species search",
         "-", data.total, NoText, <<>>, Substring(analysis, SummaryPrefix),
         NoData, NoDataset)

\* getMarineInsightsForRegion: the prompt embeds JSON.stringify(regionData)
RegionPrompt(geom, descr, regionData) ==
  Prompt("region", IF descr # "" THEN descr ELSE "Specified coordinates",
         geom, NoText, NoText, <<>>, NoText, regionData, NoDataset)

\* quickSpeciesLookup: the two prompts
QuickFallbackPrompt(name) ==
  Prompt("quick-general-knowledge", name, "-", NoText, NoText, <<>>, NoText,
         NoData, NoDataset)

\* the quick prompt with the whole result page instead of its first records
QuickPrompt_WholeSample(name, data) ==
  Prompt("quick-summary", name, "-", data.total, NoText,
         data.results, NoText, NoData, NoDataset)

QuickPrompt(name, data) ==
  Prompt("quick-summary", name, "-", data.total, NoText,
         Slice(data.results, QuickSample), NoText, NoData, NoDataset)

\* the properties the template of analyzeDatasetWithAI(dataset) reads from
\* its argument when the argument is the id string passed by the callers: a
\* string has no title, id, description, records or extent
StringAsDataset(datasetId) ==
  [title |-> Undefined, id |-> Undefined, description |-> Undefined,
   records |-> Undefined, spatial |-> Undefined, temporal |-> Undefined]

\* analyzeDatasetWithAI(dataset: OBISDataset): the prompt
DatasetPrompt(dataset) ==
  Prompt("dataset-overall", dataset.title, "-", NoText, NoText, <<>>, NoText, NoData,
         [title |-> dataset.title, id |-> dataset.id,
          description |-> IF dataset.description # Undefined THEN dataset.description
                          ELSE "No description available",
          records |-> IF dataset.records # Undefined THEN dataset.records ELSE "Unknown",
          spatial |-> IF dataset.spatial # Undefined THEN dataset.spatial
                      ELSE "Not specified",
          temporal |-> IF dataset.temporal # Undefined THEN dataset.temporal
                       ELSE "Not specified"])

----------------------------------------------------------------------------
(* Values an invocation settles with                                       *)

NoInsights == <<>>

\* a result whose obis_data.total is recomputed from the retrieved records
Structured_RecountTotal(od, ai, ins, sm) ==
  [shape |-> "structured", obis_data |-> [od EXCEPT !.total = Len(od.results)],
   ai_analysis |-> ai, insights |-> ins, summary |-> sm, text |-> NoText]

\* what a promise of the service resolves to: an EnhancedMarineAnalysis
\* (shape "structured") or a bare string (shape "text")
Structured(od, ai, ins, sm) ==
  [shape |-> "structured", obis_data |-> od, ai_analysis |-> ai, insights |-> ins,
   summary |-> sm, text |-> NoText]

Text(t) ==
  [shape |-> "text", obis_data |-> NoData, ai_analysis |-> NoText,
   insights |-> NoInsights, summary |-> NoText, text |-> t]

\* the object {ai_analysis: analysis} that Analytics.tsx builds around the
\* string of a regional analysis
AiAnalysisOnly(t) ==
  [shape |-> "ai_analysis-only", obis_data |-> NoData, ai_analysis |-> t,
   insights |-> NoInsights, summary |-> NoText, text |-> NoText]

NoValue ==
  [shape |-> "-", obis_data |-> NoData, ai_analysis |-> NoText,
   insights |-> NoInsights, summary |-> NoText, text |-> NoText]

Pending == [status |-> "pending", value |-> NoValue, error |-> NoError]
Resolved(v) == [status |-> "resolved", value |-> v, error |-> NoError]
Rejected(e) == [status |-> "rejected", value |-> NoValue, error |-> e]

----------------------------------------------------------------------------
(* GeminiApiService.generateContent                                        *)

ConfigError == Err(<<"Please set your Gemini API key in the environment variables">>)

\* !this.apiKey || this.apiKey === 'your-api-key-here'
KeyMissing == apiKey = "" \/ apiKey = Placeholder

GenFail(e) == [ok |-> FALSE, text |-> NoText, error |-> e]
\* text || 'No analysis available'
GenOk_Fallback(t) == [ok |-> TRUE, text |-> IF t = 0 THEN 21 ELSE t, error |-> NoError]

GenOk(t) == [ok |-> TRUE, text |-> t, error |-> NoError]

\* generateContent with `return ''` in place of the throw for a response
\* without candidates
GenerateContentOutcome_EmptyCandidatesOk(resp) ==
  IF resp.t = "neterr"
    THEN IF resp.isError THEN GenFail(FetchErr)
         ELSE GenFail(Err(<<"Failed to connect to Gemini API">>))
  ELSE IF ~resp.ok
    THEN IF ~resp.body.parses THEN GenFail(SyntaxErr)
         ELSE GenFail(Err(<<"Gemini API Error: ",
                            IF resp.body.errMessage # Undefined /\ resp.body.errMessage # ""
                              THEN resp.body.errMessage ELSE "Unknown error">>))
  ELSE IF ~resp.body.parses THEN GenFail(SyntaxErr)
  ELSE IF resp.body.cands \in {"absent", "empty"} THEN GenOk(0)
  ELSE IF resp.body.cands = "nocontent" THEN GenFail(TypeErr)
  ELSE GenOk(resp.body.text)

\* the part of generateContent after the fetch has settled with resp
GenerateContentOutcome(resp) ==
  IF resp.t = "neterr"
    THEN IF resp.isError THEN GenFail(FetchErr)
         ELSE GenFail(Err(<<"Failed to connect to Gemini API">>))
  ELSE IF ~resp.ok
    THEN IF ~resp.body.parses THEN GenFail(SyntaxErr)
         ELSE GenFail(Err(<<"Gemini API Error: ",
                            IF resp.body.errMessage # Undefined /\ resp.body.errMessage # ""
                              THEN resp.body.errMessage ELSE "Unknown error">>))
  ELSE IF ~resp.body.parses THEN GenFail(SyntaxErr)
  ELSE IF resp.body.cands \in {"absent", "empty"}
    THEN GenFail(Err(<<"No response generated from Gemini API">>))
  ELSE IF resp.body.cands = "nocontent" THEN GenFail(TypeErr)
  ELSE GenOk(resp.body.text)

\* fetchOBISSpecies answering a non-success status with an empty result
\* instead of throwing
FetchOBISSpeciesOutcome_NoStatusCheck(resp) ==
  IF resp.t = "neterr"
    THEN [ok |-> FALSE, data |-> NoData, error |-> IF resp.isError THEN FetchErr ELSE NonError]
  ELSE IF ~resp.ok
    THEN [ok |-> TRUE, data |-> ObisBody(TRUE, 0, TRUE, 0), error |-> NoError]
  ELSE IF ~resp.body.parses
    THEN [ok |-> FALSE, data |-> NoData, error |-> SyntaxErr]
  ELSE [ok |-> TRUE, data |-> resp.body, error |-> NoError]

\* the part of fetchOBISSpecies after the fetch has settled with resp
FetchOBISSpeciesOutcome(resp) ==
  IF resp.t = "neterr"
    THEN [ok |-> FALSE, data |-> NoData, error |-> IF resp.isError THEN FetchErr ELSE NonError]
  ELSE IF ~resp.ok
    THEN [ok |-> FALSE, data |-> NoData,
          error |-> Err(<<"OBIS API error: ", ToString(resp.status), StatusText(resp.status)>>)]
  ELSE IF ~resp.body.parses
    THEN [ok |-> FALSE, data |-> NoData, error |-> SyntaxErr]
  ELSE [ok |-> TRUE, data |-> resp.body, error |-> NoError]

----------------------------------------------------------------------------
(* OBISGeminiService                                                       *)

Names == {"", "Sardinella longiceps"}
Geometries == {"POLYGON((70 8, 78 8, 78 15, 70 15, 70 8))"}
Descriptions == {"", "User-specified region"}
DatasetIds == {"ds-1", "ds-2"}
SpeciesLimits == {PageSpeciesLimit, DefaultLimit}
ApiKeys == {"", Placeholder, "AIza-key"}

\* catch (error) { throw new Error(`${prefix}${error instanceof Error ? error.message : 'Unknown error'}`) }
\* prefix "" stands for a body without try/catch: the error propagates as it is
Catch(prefix, e) == IF prefix = "" THEN e ELSE Err(<<prefix>> \o MessageOf(e))

CatchPrefix(o) ==
  CASE o = "species" -> "Species analysis failed: "
    [] o = "region" -> "Regional analysis failed: "
    [] o = "quick" -> "Species lookup failed: "
    [] OTHER -> ""

\* a catch clause that issues the failed request once more before giving up
Throw_RetryOnce(o, e) ==
  IF Len(reqs) >= 1 /\ Len(reqs) = Len(resps) + 1
       /\ (Len(reqs) = 1 \/ reqs[Len(reqs)] # reqs[Len(reqs) - 1])
    THEN /\ pc' = pc
         /\ settled' = settled
         /\ reqs' = Append(reqs, reqs[Len(reqs)])
    ELSE /\ pc' = "rejected"
         /\ settled' = Rejected(Catch(CatchPrefix(o), e))
         /\ reqs' = reqs

\* the invocation rejects: the error thrown inside the body passes through
\* the catch clause of the operation
Throw(o, e) ==
  /\ pc' = "rejected"
  /\ settled' = Rejected(Catch(CatchPrefix(o), e))
  /\ reqs' = reqs

Return(v) ==
  /\ pc' = "resolved"
  /\ settled' = Resolved(v)
  /\ reqs' = reqs

\* geminiApi.generateContent(prompt) up to its await: the key check throws
\* before the fetch is issued
Generate(o, p) ==
  IF KeyMissing
    THEN Throw(o, ConfigError)
    ELSE /\ pc' = "awaitGemini"
         /\ reqs' = Append(reqs, GeminiRequest(p))
         /\ settled' = settled

\* this.fetchOBISSpecies(name, geom, lim) up to its await
FetchOBISSpecies(name, geom, lim) ==
  /\ pc' = "awaitObis"
  /\ reqs' = Append(reqs, ObisRequest(name, geom, lim))
  /\ settled' = settled

\* searchSpeciesWithAI(scientificName, geometry, limit) up to the first await
CallSearchSpeciesWithAI(name, lim) ==
  /\ pc = "idle"
  /\ op' = "species"
  /\ scientificName' = name /\ geometry' = "" /\ description' = "" /\ limit' = lim
  /\ FetchOBISSpecies(name, "", lim)
  /\ UNCHANGED <<apiKey, step, obisData, aiAnalysis, insights, resps>>
  /\ UNCHANGED <<pageVars, concVars>>

\* getMarineInsightsForRegion calling fetchOBISSpecies(undefined, geometry)
\* without its third argument, so that the default limit applies
CallGetMarineInsightsForRegion_DefaultLimit(geom, descr) ==
  /\ pc = "idle"
  /\ op' = "region"
  /\ scientificName' = "" /\ geometry' = geom /\ description' = descr
  /\ limit' = DefaultLimit
  /\ FetchOBISSpecies("", geom, DefaultLimit)
  /\ UNCHANGED <<apiKey, step, obisData, aiAnalysis, insights, resps>>
  /\ UNCHANGED <<pageVars, concVars>>

\* getMarineInsightsForRegion(geometry, description) up to the first await
CallGetMarineInsightsForRegion(geom, descr) ==
  /\ pc = "idle"
  /\ op' = "region"
  /\ scientificName' = "" /\ geometry' = geom /\ description' = descr
  /\ limit' = RegionLimit
  /\ FetchOBISSpecies("", geom, RegionLimit)
  /\ UNCHANGED <<apiKey, step, obisData, aiAnalysis, insights, resps>>
  /\ UNCHANGED <<pageVars, concVars>>

\* quickSpeciesLookup(scientificName) up to the first await
CallQuickSpeciesLookup(name) ==
  /\ pc = "idle"
  /\ op' = "quick"
  /\ scientificName' = name /\ geometry' = "" /\ description' = ""
  /\ limit' = QuickLimit
  /\ FetchOBISSpecies(name, "", QuickLimit)
  /\ UNCHANGED <<apiKey, step, obisData, aiAnalysis, insights, resps>>
  /\ UNCHANGED <<pageVars, concVars>>

\* obisGeminiService.analyzeDatasetWithAI(datasetId).  The class body defines
\* analyzeDatasetWithAI twice; a later method definition of a class body
\* replaces an earlier one of the same name, so the member of the exported
\* object is the second one, analyzeDatasetWithAI(dataset), and the callers'
\* id string is its dataset argument.
CallAnalyzeDatasetWithAI(datasetId) ==
  /\ pc = "idle"
  /\ op' = "dataset"
  /\ scientificName' = "" /\ geometry' = "" /\ description' = "" /\ limit' = 0
  /\ Generate("dataset", DatasetPrompt(StringAsDataset(datasetId)))
  /\ UNCHANGED <<apiKey, step, obisData, aiAnalysis, insights, resps>>
  /\ UNCHANGED <<pageVars, concVars>>

\* searchSpeciesWithAI resumes after the OBIS fetch and runs
\* analyzeSpeciesDataWithAI up to its await
ObisResponseSpecies(resp) ==
  /\ pc = "awaitObis" /\ op = "species"
  /\ resps' = Append(resps, resp)
  /\ LET out == FetchOBISSpeciesOutcome(resp) IN
       IF ~out.ok THEN Throw("species", out.error) /\ obisData' = obisData
       ELSE /\ obisData' = out.data
            /\ IF ~out.data.hasResults THEN Throw("species", TypeErr)
               ELSE Generate("species", SpeciesPrompt(out.data, scientificName))
  /\ UNCHANGED <<apiKey, op, step, scientificName, geometry, description, limit,
                 aiAnalysis, insights>>
  /\ UNCHANGED <<pageVars, concVars>>

\* getMarineInsightsForRegion resumes after the OBIS fetch
ObisResponseRegion(resp) ==
  /\ pc = "awaitObis" /\ op = "region"
  /\ resps' = Append(resps, resp)
  /\ LET out == FetchOBISSpeciesOutcome(resp) IN
       IF ~out.ok THEN Throw("region", out.error) /\ obisData' = obisData
       ELSE /\ obisData' = out.data
            /\ Generate("region", RegionPrompt(geometry, description, out.data))
  /\ UNCHANGED <<apiKey, op, step, scientificName, geometry, description, limit,
                 aiAnalysis, insights>>
  /\ UNCHANGED <<pageVars, concVars>>

\* quickSpeciesLookup resumes after the OBIS fetch
ObisResponseQuick(resp) ==
  /\ pc = "awaitObis" /\ op = "quick"
  /\ resps' = Append(resps, resp)
  /\ LET out == FetchOBISSpeciesOutcome(resp) IN
       IF ~out.ok THEN Throw("quick", out.error) /\ obisData' = obisData
       ELSE /\ obisData' = out.data
            /\ IF out.data.total = 0 THEN Generate("quick", QuickFallbackPrompt(scientificName))
               ELSE IF ~out.data.hasResults THEN Throw("quick", TypeErr)
               ELSE Generate("quick", QuickPrompt(scientificName, out.data))
  /\ UNCHANGED <<apiKey, op, step, scientificName, geometry, description, limit,
                 aiAnalysis, insights>>
  /\ UNCHANGED <<pageVars, concVars>>

\* searchSpeciesWithAI resumes after a text-generation call: the overall
\* narrative (step 0), the five aspects of generateDetailedInsights (steps
\* 1..5) and the summary (step 6), each awaited before the next is issued
GeminiResponseSpecies(resp) ==
  /\ pc = "awaitGemini" /\ op = "species"
  /\ resps' = Append(resps, resp)
  /\ LET out == GenerateContentOutcome(resp) IN
       IF ~out.ok
         THEN Throw("species", out.error) /\ UNCHANGED <<step, aiAnalysis, insights>>
       ELSE /\ step' = step + 1
            /\ IF step = 0
                 THEN /\ aiAnalysis' = out.text
                      /\ insights' = insights
                      /\ Generate("species", AspectPrompt(1, obisData))
               ELSE IF step < NumAspects
                 THEN /\ aiAnalysis' = aiAnalysis
                      /\ insights' = Append(insights, out.text)
                      /\ Generate("species", AspectPrompt(step + 1, obisData))
               ELSE IF step = NumAspects
                 THEN /\ aiAnalysis' = aiAnalysis
                      /\ insights' = Append(insights, out.text)
                      /\ IF aiAnalysis = NoText
                           THEN Throw("species", TypeErr)
                           ELSE Generate("species",
                                         SummaryPrompt(obisData, aiAnalysis, scientificName))
               ELSE /\ UNCHANGED <<aiAnalysis, insights>>
                    /\ Return(Structured(obisData, aiAnalysis, insights, out.text))
  /\ UNCHANGED <<apiKey, op, scientificName, geometry, description, limit, obisData>>
  /\ UNCHANGED <<pageVars, concVars>>

\* getMarineInsightsForRegion resumes after its text-generation call
GeminiResponseRegion(resp) ==
  /\ pc = "awaitGemini" /\ op = "region"
  /\ resps' = Append(resps, resp)
  /\ LET out == GenerateContentOutcome(resp) IN
       IF ~out.ok THEN Throw("region", out.error) /\ step' = step
       ELSE step' = step + 1 /\ Return(Text(out.text))
  /\ UNCHANGED <<apiKey, op, scientificName, geometry, description, limit, obisData,
                 aiAnalysis, insights>>
  /\ UNCHANGED <<pageVars, concVars>>

\* quickSpeciesLookup resumes after its text-generation call
GeminiResponseQuick(resp) ==
  /\ pc = "awaitGemini" /\ op = "quick"
  /\ resps' = Append(resps, resp)
  /\ LET out == GenerateContentOutcome(resp) IN
       IF ~out.ok THEN Throw("quick", out.error) /\ step' = step
       ELSE step' = step + 1 /\ Return(Text(out.text))
  /\ UNCHANGED <<apiKey, op, scientificName, geometry, description, limit, obisData,
                 aiAnalysis, insights>>
  /\ UNCHANGED <<pageVars, concVars>>

\* analyzeDatasetWithAI calling itself again with what it received
GeminiResponseDataset_ReEnters(resp) ==
  /\ pc = "awaitGemini" /\ op = "dataset"
  /\ Len(reqs) <= NumAspects + 3
  /\ resps' = Append(resps, resp)
  /\ reqs' = Append(reqs, reqs[Len(reqs)])
  /\ UNCHANGED <<apiKey, op, pc, step, scientificName, geometry, description, limit,
                 obisData, aiAnalysis, insights, settled>>
  /\ UNCHANGED <<pageVars, concVars>>

\* analyzeDatasetWithAI(dataset) resumes after its text-generation call
GeminiResponseDataset(resp) ==
  /\ pc = "awaitGemini" /\ op = "dataset"
  /\ resps' = Append(resps, resp)
  /\ LET out == GenerateContentOutcome(resp) IN
       IF ~out.ok THEN Throw("dataset", out.error) /\ step' = step
       ELSE step' = step + 1 /\ Return(Text(out.text))
  /\ UNCHANGED <<apiKey, op, scientificName, geometry, description, limit, obisData,
                 aiAnalysis, insights>>
  /\ UNCHANGED <<pageVars, concVars>>

----------------------------------------------------------------------------
(* One invocation of the service                                           *)

\* a piece of page state that holds null, a result of the service, or an
\* object {error: message}
NullState == [kind |-> "null", value |-> NoValue, error |-> <<>>]
ResultState(v) == [kind |-> "result", value |-> v, error |-> <<>>]
ErrorState(msg) == [kind |-> "error", value |-> NoValue, error |-> msg]

NoToast == [level |-> "-", message |-> <<>>]
NoSelection == "-"

\* the arguments and local variables of the invocation that is running
Locals ==
  [op |-> op, pc |-> pc, step |-> step, scientificName |-> scientificName,
   geometry |-> geometry, description |-> description, limit |-> limit,
   obisData |-> obisData, aiAnalysis |-> aiAnalysis, insights |-> insights,
   reqs |-> reqs, resps |-> resps, settled |-> settled]

\* an invocation that has not been made yet
NewInvocation ==
  [op |-> "none", pc |-> "idle", step |-> 0, scientificName |-> "",
   geometry |-> "", description |-> "", limit |-> 0,
   obisData |-> NoData, aiAnalysis |-> NoText, insights |-> NoInsights,
   reqs |-> <<>>, resps |-> <<>>, settled |-> Pending]

\* useState(null) of Dashboard.tsx
NoStatus == [status |-> "null", obis_connection |-> "-", last_update |-> 0, records |-> "-"]

NoRequest == [url |-> <<>>, method |-> "-"]

\* the state of page pg after its first render; isLoading is the initial
\* value of its loading state, listAt the position of its list loader
PageStateInit(pg, isLoading, listAt) ==
  /\ page = pg
  /\ handler = "idle"
  /\ loading = isLoading
  /\ analysedDataset = NoSelection
  /\ currentPage = 0
  /\ totalDatasets = 0
  /\ datasets = 0
  /\ statistics = "null"
  /\ listPc = listAt
  /\ listResult = NoValue
  /\ statsInFlight = 0
  /\ offsetRequested = 0
  /\ systemStatus = NoStatus
  /\ shownTitles = {}
  /\ dashResponse = NoValue
  /\ now = 0
  /\ apiPc = "idle"
  /\ apiResponse = NoValue
  /\ apiResult = Pending
  /\ apiRequest = NoRequest
  /\ loadingProgress = 0
  /\ loadingMessage = ""
  /\ timerPending = FALSE
  /\ toast = NoToast
  /\ speciesAnalysis = NullState
  /\ regionAnalysis = NullState
  /\ aiResponses = [chat |-> NullState, analysis |-> NullState, insights |-> NullState]
  /\ inflight = {}
  /\ selectedDataset = NoSelection
  /\ datasetAnalysis = NullState
  /\ analysisResults = NullState
  /\ shownObisData = NoData
  /\ analysisLocal = NoValue
  /\ delivered = Pending

\* a page that has been rendered and whose mount effects, if any, have run
PageInitOf(pg) == PageStateInit(pg, FALSE, "idle")

\* no invocation of the service is running
ServiceIdle ==
  /\ apiKey = "AIza-key"
  /\ op = "none"
  /\ pc = "idle"
  /\ step = 0
  /\ scientificName = ""
  /\ geometry = ""
  /\ description = ""
  /\ limit = 0
  /\ obisData = NoData
  /\ aiAnalysis = NoText
  /\ insights = NoInsights
  /\ reqs = <<>>
  /\ resps = <<>>
  /\ settled = Pending
  /\ self = 1
  /\ other = NewInvocation

Init ==
  /\ apiKey \in ApiKeys
  /\ op = "none"
  /\ pc = "idle"
  /\ step = 0
  /\ scientificName = ""
  /\ geometry = ""
  /\ description = ""
  /\ limit = 0
  /\ obisData = NoData
  /\ aiAnalysis = NoText
  /\ insights = NoInsights
  /\ reqs = <<>>
  /\ resps = <<>>
  /\ settled = Pending
  /\ self = 1
  /\ other = NewInvocation
  /\ PageInitOf("none")

Next ==
  \/ \E name \in Names, lim \in SpeciesLimits : CallSearchSpeciesWithAI(name, lim)
  \/ \E id \in DatasetIds : CallAnalyzeDatasetWithAI(id)
  \/ \E geom \in Geometries, descr \in Descriptions :
        CallGetMarineInsightsForRegion(geom, descr)
  \/ \E name \in Names \ {""} : CallQuickSpeciesLookup(name)
  \/ \E resp \in ObisResponses(limit) : ObisResponseSpecies(resp)
  \/ \E resp \in ObisResponses(limit) : ObisResponseRegion(resp)
  \/ \E resp \in ObisResponses(limit) : ObisResponseQuick(resp)
  \/ \E resp \in GeminiResponses : GeminiResponseSpecies(resp)
  \/ \E resp \in GeminiResponses : GeminiResponseRegion(resp)
  \/ \E resp \in GeminiResponses : GeminiResponseQuick(resp)
  \/ \E resp \in GeminiResponses : GeminiResponseDataset(resp)

Spec == Init /\ [][Next]_vars

----------------------------------------------------------------------------
(* Page handlers (AIIntegration.tsx, Datasets.tsx, Analytics.tsx)          *)
(* A handler is a chain of awaits like the service operations: the click   *)
(* runs it up to the service call, Settled runs the continuation after the *)
(* call has resolved or rejected.  Here the service call is the            *)
(* environment: it settles with one of the values or errors that the       *)
(* operation of the service can settle with.                               *)

MaxShown == 1

Inputs == {"", "   ", "Sardinella longiceps"}

\* String.prototype.trim on the inputs above
Trim(str) == IF str = "   " THEN "" ELSE str

\* a || b on message strings
OrElse(m, d) == IF m # <<>> THEN m ELSE d

ErrorToast(msg) == [level |-> "error", message |-> msg]
SuccessToast(msg) == [level |-> "success", message |-> msg]

InnerErrors == {ConfigError, FetchErr, NonError,
                Err(<<"No response generated from Gemini API">>)}

AllAspects(t) == [k \in 1..NumAspects |-> t]

\* what searchSpeciesWithAI can settle with
SpeciesOutcomes ==
  {Resolved(Structured(ObisBody(TRUE, n, TRUE, n), t, AllAspects(t), t)) :
      n \in 0..MaxShown, t \in TextLens} \cup
  {Rejected(Catch(CatchPrefix("species"), e)) : e \in InnerErrors}

\* what the bound analyzeDatasetWithAI can settle with
DatasetOutcomes ==
  {Resolved(Text(t)) : t \in TextLens} \cup
  {Rejected(Catch(CatchPrefix("dataset"), e)) : e \in InnerErrors \ {NonError}}

\* AIIntegration.tsx searchSpeciesWithAI, up to the await
AI_SearchSpeciesClick(speciesSearch) ==
  /\ page = "AIIntegration" /\ ~loading
  /\ IF Trim(speciesSearch) = ""
       THEN /\ toast' = ErrorToast(<<"Please enter a species name">>)
            /\ UNCHANGED <<handler, loading, inflight>>
       ELSE /\ loading' = TRUE
            /\ handler' = "ai-species"
            /\ inflight' = inflight \cup {"ai-species"}
            /\ toast' = toast
  /\ UNCHANGED <<page, loadingProgress, loadingMessage, timerPending, speciesAnalysis,
                 selectedDataset, datasetAnalysis, analysisResults, shownObisData,
                 analysisLocal, delivered>>
  /\ UNCHANGED <<regionAnalysis, aiResponses>>
  /\ UNCHANGED <<svcVars, concVars, extVars, analysedDataset>>

\* AIIntegration.tsx searchSpeciesWithAI, after the await: try / catch / finally
AI_SearchSpeciesSettled(out) ==
  /\ page = "AIIntegration" /\ "ai-species" \in inflight
  /\ inflight' = inflight \ {"ai-species"}
  /\ delivered' = out
  /\ IF out.status = "resolved"
       THEN /\ speciesAnalysis' = ResultState(out.value)
            /\ toast' = SuccessToast(<<"Species analysis completed">>)
       ELSE /\ toast' = ErrorToast(OrElse(out.error.message, <<"Failed to analyze species">>))
            /\ speciesAnalysis' = ErrorState(OrElse(out.error.message, <<"Unknown error">>))
  /\ loading' = FALSE
  /\ handler' = "idle"
  /\ UNCHANGED <<page, loadingProgress, loadingMessage, timerPending, selectedDataset,
                 datasetAnalysis, analysisResults, shownObisData, analysisLocal>>
  /\ UNCHANGED <<regionAnalysis, aiResponses>>
  /\ UNCHANGED <<svcVars, concVars, extVars, analysedDataset>>

\* what getMarineInsightsForRegion can settle with
RegionOutcomes ==
  {Resolved(Text(t)) : t \in TextLens} \cup
  {Rejected(Catch(CatchPrefix("region"), e)) : e \in InnerErrors}

RegionInputs == {"", "   "} \cup Geometries

\* AIIntegration.tsx analyzeRegionWithAI, up to the await
AI_AnalyzeRegionClick(regionGeometry) ==
  /\ page = "AIIntegration" /\ ~loading
  /\ IF Trim(regionGeometry) = ""
       THEN /\ toast' = ErrorToast(<<"Please enter region coordinates or WKT geometry">>)
            /\ UNCHANGED <<handler, loading, inflight>>
       ELSE /\ loading' = TRUE
            /\ handler' = "ai-region"
            /\ inflight' = inflight \cup {"ai-region"}
            /\ toast' = toast
  /\ UNCHANGED <<page, loadingProgress, loadingMessage, timerPending, speciesAnalysis,
                 regionAnalysis, selectedDataset, datasetAnalysis, analysisResults,
                 shownObisData, analysisLocal, delivered>>
  /\ UNCHANGED aiResponses
  /\ UNCHANGED <<svcVars, concVars, extVars, analysedDataset>>

\* AIIntegration.tsx analyzeRegionWithAI, after the await: try / catch / finally.
\* {content: analysis, status: 'success'} is ResultState(analysis),
\* {error: message, status: 'error'} is ErrorState(message)
AI_AnalyzeRegionSettled(out) ==
  /\ page = "AIIntegration" /\ "ai-region" \in inflight
  /\ inflight' = inflight \ {"ai-region"}
  /\ delivered' = out
  /\ IF out.status = "resolved"
       THEN /\ regionAnalysis' = ResultState(out.value)
            /\ toast' = SuccessToast(<<"Regional analysis completed">>)
       ELSE /\ toast' = ErrorToast(OrElse(out.error.message, <<"Failed to analyze region">>))
            /\ regionAnalysis' = ErrorState(OrElse(out.error.message, <<"Unknown error">>))
  /\ loading' = FALSE
  /\ handler' = "idle"
  /\ UNCHANGED <<page, loadingProgress, loadingMessage, timerPending, speciesAnalysis,
                 selectedDataset, datasetAnalysis, analysisResults, shownObisData,
                 analysisLocal>>
  /\ UNCHANGED aiResponses
  /\ UNCHANGED <<svcVars, concVars, extVars, analysedDataset>>

\* what chatAboutMarine, analyzeMarineData and getMarineInsights can settle
\* with: the text or the error of their generateContent call
GeminiOutcomes == {Resolved(Text(MaxTextLen)), Rejected(ConfigError)}

\* a handler of AIIntegration.tsx up to its await: the input check (blank
\* says that the trimmed input is empty), then setLoading(true).  Its button
\* is disabled while loading is true.
AI_Click(h, blank, emptyMessage) ==
  /\ ~loading
  /\ IF blank
       THEN /\ toast' = ErrorToast(emptyMessage)
            /\ UNCHANGED <<handler, loading, inflight>>
       ELSE /\ loading' = TRUE
            /\ handler' = h
            /\ inflight' = inflight \cup {h}
            /\ toast' = toast
  /\ UNCHANGED <<page, loadingProgress, loadingMessage, timerPending, speciesAnalysis,
                 regionAnalysis, aiResponses, selectedDataset, datasetAnalysis,
                 analysisResults, shownObisData, analysisLocal, delivered>>
  /\ UNCHANGED <<svcVars, concVars, extVars, analysedDataset>>

\* a handler of AIIntegration.tsx after its await: try / catch / finally with
\* the AIResponse state `slot`
AI_Settled(h, slot, out, okMessage, failMessage) ==
  /\ h \in inflight
  /\ inflight' = inflight \ {h}
  /\ delivered' = out
  /\ IF out.status = "resolved"
       THEN /\ aiResponses' = [aiResponses EXCEPT ![slot] = ResultState(out.value)]
            /\ toast' = SuccessToast(okMessage)
       ELSE /\ toast' = ErrorToast(OrElse(out.error.message, failMessage))
            /\ aiResponses' = [aiResponses EXCEPT
                                 ![slot] = ErrorState(OrElse(out.error.message,
                                                             <<"Unknown error">>))]
  /\ loading' = FALSE
  /\ handler' = "idle"
  /\ UNCHANGED <<page, loadingProgress, loadingMessage, timerPending, speciesAnalysis,
                 regionAnalysis, selectedDataset, datasetAnalysis, analysisResults,
                 shownObisData, analysisLocal>>
  /\ UNCHANGED <<svcVars, concVars, extVars, analysedDataset>>

\* AIIntegration.tsx handleChatSubmit
AI_ChatClick(chatQuestion) ==
  /\ page = "AIIntegration"
  /\ AI_Click("ai-chat", Trim(chatQuestion) = "", <<"Please enter a question">>)

AI_ChatSettled(out) ==
  /\ page = "AIIntegration"
  /\ AI_Settled("ai-chat", "chat", out, <<"AI response generated successfully">>,
                <<"Failed to get AI response">>)

\* AIIntegration.tsx handleAnalysisSubmit
AI_AnalysisClick(analysisData) ==
  /\ page = "AIIntegration"
  /\ AI_Click("ai-analysis", Trim(analysisData) = "", <<"Please enter data to analyze">>)

AI_AnalysisSettled(out) ==
  /\ page = "AIIntegration"
  /\ AI_Settled("ai-analysis", "analysis", out, <<"Analysis completed successfully">>,
                <<"Failed to analyze data">>)

\* getQuickInsights behind a button that stays enabled while loading
AI_QuickInsightsClick_NotDisabled ==
  /\ page = "AIIntegration" /\ "ai-insights" \notin inflight
  /\ loading' = TRUE
  /\ handler' = "ai-insights"
  /\ inflight' = inflight \cup {"ai-insights"}
  /\ UNCHANGED <<page, loadingProgress, loadingMessage, timerPending, speciesAnalysis,
                 regionAnalysis, aiResponses, selectedDataset, datasetAnalysis,
                 analysisResults, shownObisData, analysisLocal, delivered, toast>>
  /\ UNCHANGED <<svcVars, concVars, extVars, analysedDataset>>

\* AIIntegration.tsx getQuickInsights: no input to check
AI_QuickInsightsClick ==
  /\ page = "AIIntegration"
  /\ AI_Click("ai-insights", FALSE, <<>>)

AI_QuickInsightsSettled(out) ==
  /\ page = "AIIntegration"
  /\ AI_Settled("ai-insights", "insights", out, <<"Quick insights generated">>,
                <<"Failed to get insights">>)

\* AIIntegration.tsx analyzeDatasetWithAI, up to the await
AI_AnalyzeDatasetClick(datasetId) ==
  /\ page = "AIIntegration"
  /\ AI_Click("ai-dataset", Trim(datasetId) = "", <<"Please enter a dataset ID">>)

\* AIIntegration.tsx analyzeDatasetWithAI, after the await
AI_AnalyzeDatasetSettled(out) ==
  /\ page = "AIIntegration" /\ "ai-dataset" \in inflight
  /\ inflight' = inflight \ {"ai-dataset"}
  /\ delivered' = out
  /\ IF out.status = "resolved"
       THEN /\ datasetAnalysis' = ResultState(out.value)
            /\ toast' = SuccessToast(<<"Dataset analysis completed">>)
       ELSE /\ toast' = ErrorToast(OrElse(out.error.message, <<"Failed to analyze dataset">>))
            /\ datasetAnalysis' = ErrorState(OrElse(out.error.message, <<"Unknown error">>))
  /\ loading' = FALSE
  /\ handler' = "idle"
  /\ UNCHANGED <<page, loadingProgress, loadingMessage, timerPending, speciesAnalysis,
                 regionAnalysis, aiResponses, selectedDataset, analysisResults,
                 shownObisData, analysisLocal>>
  /\ UNCHANGED <<svcVars, concVars, extVars, analysedDataset>>

\* components/ui/markdown.tsx: the text the Markdown component renders;
\* NoText stands for the placeholder 'No content available', rendered when
\* content is undefined or empty
Markdown(content) == IF content = NoText \/ content = 0 THEN NoText ELSE content

\* the region result panel of AIIntegration.tsx: what it renders from
\* regionAnalysis.  The success branch reads content?.total and
\* content?.ai_analysis; a string has neither property, which the record
\* Text(t) renders as NoText
RegionPanel ==
  IF regionAnalysis.kind = "null"
    THEN [visible |-> FALSE, found |-> 0, analysis |-> NoText, error |-> <<>>]
  ELSE IF regionAnalysis.kind = "result"
    THEN [visible |-> TRUE,
          found |-> IF regionAnalysis.value.shape = "structured"
                      THEN regionAnalysis.value.obis_data.total ELSE 0,
          analysis |-> Markdown(regionAnalysis.value.ai_analysis),
          error |-> <<>>]
  ELSE [visible |-> TRUE, found |-> 0, analysis |-> NoText,
        error |-> regionAnalysis.error]

\* setTimeout(() => { setLoading(false); setLoadingProgress(0); setLoadingMessage('') }, 1000)
\* scheduled by the finally clause of the handlers of Datasets.tsx and Analytics.tsx
ScheduleReset == timerPending' = TRUE

\* Datasets.tsx analyzeDataset(dataset), up to the await
DS_AnalyzeClick(dataset) ==
  /\ page = "Datasets" /\ handler = "idle" /\ ~loading
  /\ selectedDataset' = dataset
  /\ loading' = TRUE
  /\ loadingProgress' = 25
  /\ loadingMessage' = "Sending dataset to AI for analysis..."
  /\ handler' = "ds-analyze"
  /\ UNCHANGED <<page, timerPending, toast, speciesAnalysis, datasetAnalysis,
                 analysisResults, shownObisData, analysisLocal, delivered>>
  /\ UNCHANGED <<regionAnalysis, aiResponses, inflight>>
  /\ UNCHANGED <<svcVars, concVars, extVars, analysedDataset>>

\* Datasets.tsx analyzeDataset, after the service call has settled
DS_AnalyzeSettled(out) ==
  /\ page = "Datasets" /\ handler = "ds-analyze"
  /\ delivered' = out
  /\ IF out.status = "resolved"
       THEN /\ analysisLocal' = out.value
            /\ loadingProgress' = 75
            /\ loadingMessage' = "Processing AI insights..."
            /\ handler' = "ds-delay"
            /\ UNCHANGED <<toast, datasetAnalysis, timerPending, analysedDataset>>
       ELSE /\ loadingProgress' = 0
            /\ loadingMessage' = "Analysis failed"
            /\ toast' = ErrorToast(OrElse(out.error.message, <<"Failed to analyze dataset">>))
            /\ datasetAnalysis' = ErrorState(OrElse(out.error.message, <<"Unknown error">>))
            /\ analysedDataset' = selectedDataset
            /\ ScheduleReset
            /\ handler' = "idle"
            /\ analysisLocal' = analysisLocal
  /\ UNCHANGED <<page, loading, speciesAnalysis, selectedDataset, analysisResults,
                 shownObisData>>
  /\ UNCHANGED <<regionAnalysis, aiResponses, inflight>>
  /\ UNCHANGED <<svcVars, concVars, extVars>>

\* Datasets.tsx analyzeDataset, after await new Promise(resolve => setTimeout(resolve, 300))
DS_AnalyzeDelayElapsed ==
  /\ page = "Datasets" /\ handler = "ds-delay"
  /\ datasetAnalysis' = ResultState(analysisLocal)
  /\ analysedDataset' = selectedDataset
  /\ loadingProgress' = 100
  /\ loadingMessage' = "Analysis complete!"
  /\ toast' = SuccessToast(<<"Dataset analysis completed">>)
  /\ ScheduleReset
  /\ handler' = "idle"
  /\ UNCHANGED <<page, loading, speciesAnalysis, selectedDataset, analysisResults,
                 shownObisData, analysisLocal, delivered>>
  /\ UNCHANGED <<regionAnalysis, aiResponses, inflight>>
  /\ UNCHANGED <<svcVars, concVars, extVars>>

\* Analytics.tsx runSpeciesAnalysis, up to the await
AN_RunSpeciesClick(selectedSpecies) ==
  /\ page = "Analytics" /\ handler = "idle" /\ ~loading
  /\ IF Trim(selectedSpecies) = ""
       THEN /\ toast' = ErrorToast(<<"Please enter a species name">>)
            /\ UNCHANGED <<handler, loading, loadingProgress, loadingMessage>>
       ELSE /\ loading' = TRUE
            /\ loadingProgress' = 15
            /\ loadingMessage' = "Searching OBIS database for species data..."
            /\ handler' = "an-species"
            /\ toast' = toast
  /\ UNCHANGED <<page, timerPending, speciesAnalysis, selectedDataset, datasetAnalysis,
                 analysisResults, shownObisData, analysisLocal, delivered>>
  /\ UNCHANGED <<regionAnalysis, aiResponses, inflight>>
  /\ UNCHANGED <<svcVars, concVars, extVars, analysedDataset>>

\* runSpeciesAnalysis with a catch clause that clears the displayed result
AN_RunSpeciesSettled_Clears(out) ==
  /\ page = "Analytics" /\ handler = "an-species"
  /\ delivered' = out
  /\ IF out.status = "resolved"
       THEN /\ analysisLocal' = out.value
            /\ loadingProgress' = 50
            /\ loadingMessage' = "Processing species occurrence data..."
            /\ handler' = "an-delay"
            /\ UNCHANGED <<toast, timerPending, analysisResults, shownObisData>>
       ELSE /\ loadingProgress' = 0
            /\ loadingMessage' = "Analysis failed"
            /\ toast' = ErrorToast(OrElse(out.error.message, <<"Failed to analyze species">>))
            /\ analysisResults' = NullState
            /\ shownObisData' = NoData
            /\ ScheduleReset
            /\ handler' = "idle"
            /\ analysisLocal' = analysisLocal
  /\ UNCHANGED <<page, loading, speciesAnalysis, selectedDataset, datasetAnalysis>>
  /\ UNCHANGED <<regionAnalysis, aiResponses, inflight>>
  /\ UNCHANGED <<svcVars, concVars, extVars, analysedDataset>>

\* Analytics.tsx runSpeciesAnalysis, after the service call has settled
AN_RunSpeciesSettled(out) ==
  /\ page = "Analytics" /\ handler = "an-species"
  /\ delivered' = out
  /\ IF out.status = "resolved"
       THEN /\ analysisLocal' = out.value
            /\ loadingProgress' = 50
            /\ loadingMessage' = "Processing species occurrence data..."
            /\ handler' = "an-delay"
            /\ UNCHANGED <<toast, timerPending>>
       ELSE /\ loadingProgress' = 0
            /\ loadingMessage' = "Analysis failed"
            /\ toast' = ErrorToast(OrElse(out.error.message, <<"Failed to analyze species">>))
            /\ ScheduleReset
            /\ handler' = "idle"
            /\ analysisLocal' = analysisLocal
  /\ UNCHANGED <<page, loading, speciesAnalysis, selectedDataset, datasetAnalysis,
                 analysisResults, shownObisData>>
  /\ UNCHANGED <<regionAnalysis, aiResponses, inflight>>
  /\ UNCHANGED <<svcVars, concVars, extVars, analysedDataset>>

\* Analytics.tsx runSpeciesAnalysis, after await new Promise(resolve => setTimeout(resolve, 500))
AN_RunSpeciesDelayElapsed ==
  /\ page = "Analytics" /\ handler = "an-delay"
  /\ analysisResults' = ResultState(analysisLocal)
  /\ shownObisData' = analysisLocal.obis_data
  /\ loadingProgress' = 100
  /\ loadingMessage' = "Analysis complete!"
  /\ toast' = SuccessToast(<<"Species analysis completed successfully">>)
  /\ ScheduleReset
  /\ handler' = "idle"
  /\ UNCHANGED <<page, loading, speciesAnalysis, selectedDataset, datasetAnalysis,
                 analysisLocal, delivered>>
  /\ UNCHANGED <<regionAnalysis, aiResponses, inflight>>
  /\ UNCHANGED <<svcVars, concVars, extVars, analysedDataset>>

\* Analytics.tsx runRegionalAnalysis, up to the await
AN_RunRegionalClick(selectedRegion) ==
  /\ page = "Analytics" /\ handler = "idle" /\ ~loading
  /\ IF Trim(selectedRegion) = ""
       THEN /\ toast' = ErrorToast(<<"Please enter region coordinates">>)
            /\ UNCHANGED <<handler, loading, loadingProgress, loadingMessage>>
       ELSE /\ loading' = TRUE
            /\ loadingProgress' = 20
            /\ loadingMessage' = "Searching OBIS data for region..."
            /\ handler' = "an-region"
            /\ toast' = toast
  /\ UNCHANGED <<page, timerPending, speciesAnalysis, selectedDataset, datasetAnalysis,
                 analysisResults, shownObisData, analysisLocal, delivered>>
  /\ UNCHANGED <<regionAnalysis, aiResponses, inflight>>
  /\ UNCHANGED <<svcVars, concVars, extVars, analysedDataset>>

\* Analytics.tsx runRegionalAnalysis, after the service call has settled
AN_RunRegionalSettled(out) ==
  /\ page = "Analytics" /\ handler = "an-region"
  /\ delivered' = out
  /\ IF out.status = "resolved"
       THEN /\ analysisLocal' = out.value
            /\ loadingProgress' = 70
            /\ loadingMessage' = "Analyzing regional biodiversity patterns..."
            /\ handler' = "an-region-delay"
            /\ UNCHANGED <<toast, timerPending>>
       ELSE /\ loadingProgress' = 0
            /\ loadingMessage' = "Analysis failed"
            /\ toast' = ErrorToast(OrElse(out.error.message, <<"Failed to analyze region">>))
            /\ ScheduleReset
            /\ handler' = "idle"
            /\ analysisLocal' = analysisLocal
  /\ UNCHANGED <<page, loading, speciesAnalysis, selectedDataset, datasetAnalysis,
                 analysisResults, shownObisData>>
  /\ UNCHANGED <<regionAnalysis, aiResponses, inflight>>
  /\ UNCHANGED <<svcVars, concVars, extVars, analysedDataset>>

\* Analytics.tsx runRegionalAnalysis, after await new Promise(resolve => setTimeout(resolve, 500)):
\* setAnalysisResults({ ai_analysis: analysis }); obisData is not assigned
AN_RunRegionalDelayElapsed ==
  /\ page = "Analytics" /\ handler = "an-region-delay"
  /\ analysisResults' = ResultState(AiAnalysisOnly(analysisLocal.text))
  /\ loadingProgress' = 100
  /\ loadingMessage' = "Regional analysis complete!"
  /\ toast' = SuccessToast(<<"Regional analysis completed successfully">>)
  /\ ScheduleReset
  /\ handler' = "idle"
  /\ UNCHANGED <<page, loading, speciesAnalysis, selectedDataset, datasetAnalysis,
                 shownObisData, analysisLocal, delivered>>
  /\ UNCHANGED <<regionAnalysis, aiResponses, inflight>>
  /\ UNCHANGED <<svcVars, concVars, extVars, analysedDataset>>

\* Analytics.tsx: the two result panels.  `analysisResults && obisData` shows
\* the species panel, `analysisResults && analysisResults.ai_analysis &&
\* !obisData` the regional one
SpeciesPanelShown == analysisResults.kind = "result" /\ shownObisData # NoData

RegionalPanelShown ==
  /\ analysisResults.kind = "result"
  /\ analysisResults.value.ai_analysis # NoText /\ analysisResults.value.ai_analysis # 0
  /\ shownObisData = NoData

\* the callback of the timer that the finally clause scheduled
ResetTimerFired ==
  /\ page \in {"Datasets", "Analytics"} /\ timerPending
  /\ timerPending' = FALSE
  /\ loading' = FALSE
  /\ loadingProgress' = 0
  /\ loadingMessage' = ""
  /\ UNCHANGED <<page, handler, toast, speciesAnalysis, selectedDataset, datasetAnalysis,
                 analysisResults, shownObisData, analysisLocal, delivered>>
  /\ UNCHANGED <<regionAnalysis, aiResponses, inflight>>
  /\ UNCHANGED <<svcVars, concVars, extVars, analysedDataset>>

Pages == {"AIIntegration", "Datasets", "Analytics"}

PageSpecInit ==
  /\ apiKey = "AIza-key"
  /\ op = "none"
  /\ pc = "idle"
  /\ step = 0
  /\ scientificName = ""
  /\ geometry = ""
  /\ description = ""
  /\ limit = 0
  /\ obisData = NoData
  /\ aiAnalysis = NoText
  /\ insights = NoInsights
  /\ reqs = <<>>
  /\ resps = <<>>
  /\ settled = Pending
  /\ self = 1
  /\ other = NewInvocation
  /\ \E pg \in Pages : PageInitOf(pg)

PageNext ==
  \/ \E input \in Inputs : AI_SearchSpeciesClick(input)
  \/ \E out \in SpeciesOutcomes : AI_SearchSpeciesSettled(out)
  \/ \E input \in RegionInputs : AI_AnalyzeRegionClick(input)
  \/ \E out \in RegionOutcomes : AI_AnalyzeRegionSettled(out)
  \/ \E id \in DatasetIds : DS_AnalyzeClick(id)
  \/ \E out \in DatasetOutcomes : DS_AnalyzeSettled(out)
  \/ DS_AnalyzeDelayElapsed
  \/ \E input \in Inputs : AN_RunSpeciesClick(input)
  \/ \E out \in SpeciesOutcomes : AN_RunSpeciesSettled(out)
  \/ AN_RunSpeciesDelayElapsed
  \/ \E input \in RegionInputs : AN_RunRegionalClick(input)
  \/ \E out \in RegionOutcomes : AN_RunRegionalSettled(out)
  \/ AN_RunRegionalDelayElapsed
  \/ ResetTimerFired

PageSpec == PageSpecInit /\ [][PageNext]_vars

----------------------------------------------------------------------------
(* The six operations of the AI Integration page                           *)
(* Every operation of AIIntegration.tsx shares the one `loading` state and *)
(* every trigger button carries disabled={loading}.  Each service call     *)
(* settles: with a value, or with an error.                                *)

AIPageInit ==
  /\ apiKey = "AIza-key"
  /\ op = "none"
  /\ pc = "idle"
  /\ step = 0
  /\ scientificName = ""
  /\ geometry = ""
  /\ description = ""
  /\ limit = 0
  /\ obisData = NoData
  /\ aiAnalysis = NoText
  /\ insights = NoInsights
  /\ reqs = <<>>
  /\ resps = <<>>
  /\ settled = Pending
  /\ self = 1
  /\ other = NewInvocation
  /\ PageInitOf("AIIntegration")

\* one value and one error of each service operation
AISpeciesOutcomes ==
  {out \in SpeciesOutcomes :
     \/ out.status = "resolved" /\ out.value.ai_analysis = MaxTextLen
                                /\ out.value.obis_data.total = MaxShown
     \/ out.status = "rejected" /\ out = Rejected(Catch(CatchPrefix("species"), ConfigError))}

AIRegionOutcomes ==
  {Resolved(Text(MaxTextLen)), Rejected(Catch(CatchPrefix("region"), FetchErr))}

AIDatasetOutcomes ==
  {Resolved(Text(MaxTextLen)), Rejected(Catch(CatchPrefix("dataset"), FetchErr))}

AIClicks ==
  \/ \E input \in Inputs : AI_ChatClick(input)
  \/ \E input \in Inputs : AI_AnalysisClick(input)
  \/ AI_QuickInsightsClick
  \/ \E input \in Inputs : AI_SearchSpeciesClick(input)
  \/ \E id \in {""} \cup DatasetIds : AI_AnalyzeDatasetClick(id)
  \/ \E input \in RegionInputs : AI_AnalyzeRegionClick(input)

AISettles ==
  \/ \E out \in GeminiOutcomes : AI_ChatSettled(out)
  \/ \E out \in GeminiOutcomes : AI_AnalysisSettled(out)
  \/ \E out \in GeminiOutcomes : AI_QuickInsightsSettled(out)
  \/ \E out \in AISpeciesOutcomes : AI_SearchSpeciesSettled(out)
  \/ \E out \in AIDatasetOutcomes : AI_AnalyzeDatasetSettled(out)
  \/ \E out \in AIRegionOutcomes : AI_AnalyzeRegionSettled(out)

AIPageNext == AIClicks \/ AISettles

\* a promise that was awaited settles; nobody has to click
AIPageSpec == AIPageInit /\ [][AIPageNext]_vars /\ WF_vars(AISettles)

----------------------------------------------------------------------------
(* The Datasets page: list load, statistics load, pagination, analysis      *)
(* obisGeminiService.fetchOBISDatasets(limit, offset) and                   *)
(* fetchOBISStatistics() are promises of the environment: the list call     *)
(* resolves to { datasets, total } or rejects, the statistics call resolves *)
(* or rejects.  State updates of one continuation are committed together,   *)
(* so an action sets each state to the last value the continuation gave it. *)

datasetsPerPage == 10

MaxStatsLoads == 2

\* the datasets a full page of the list shows, in order
DatasetList == <<"ds-1", "ds-2">>

\* totals the data service can report; 0 also stands for an absent total
DatasetTotals == {0, 10, 25}

\* Math.ceil(totalDatasets / datasetsPerPage)
totalPages == (totalDatasets + datasetsPerPage - 1) \div datasetsPerPage

\* what fetchOBISDatasets settles with; datasets is the length of
\* result.datasets, 0 also for an absent field
ListOutcomes ==
  {Resolved([datasets |-> n, total |-> t]) : n \in {0, Len(DatasetList)}, t \in DatasetTotals}
    \cup {Rejected(FetchErr), Rejected(NonError)}

StatsOutcomes == {Resolved("statistics"), Rejected(FetchErr)}

dsFrame == <<page, handler, speciesAnalysis, regionAnalysis, aiResponses, inflight,
             selectedDataset, datasetAnalysis, analysisResults, shownObisData,
             analysisLocal, delivered, analysedDataset, svcVars, concVars, dashVars,
             apiVars>>

\* loadDatasets up to its await, with the page index cp of the render that
\* made the closure
LoadDatasetsStart(cp) ==
  /\ loading' = TRUE
  /\ listPc' = "fetch"
  /\ offsetRequested' = cp * datasetsPerPage

\* useEffect(() => { loadDatasets(); loadStatistics(); }, [currentPage]):
\* loadDatasets runs up to its await (progress 0, then 20), then
\* loadStatistics runs up to its await (progress 10)
DS_Effect(cp) ==
  /\ LoadDatasetsStart(cp)
  /\ statsInFlight' = statsInFlight + 1
  /\ loadingProgress' = 10
  /\ loadingMessage' = "Loading OBIS statistics..."

\* the effect after the first render
DS_Mount ==
  /\ page = "Datasets" /\ listPc = "unmounted"
  /\ DS_Effect(currentPage)
  /\ UNCHANGED <<currentPage, totalDatasets, datasets, statistics, listResult,
                 timerPending, toast>>
  /\ UNCHANGED dsFrame

\* the Refresh button: onClick={loadDatasets} disabled={loading}
DS_RefreshClick ==
  /\ page = "Datasets" /\ listPc # "unmounted" /\ ~loading
  /\ LoadDatasetsStart(currentPage)
  /\ loadingProgress' = 20
  /\ loadingMessage' = "Requesting dataset list from OBIS..."
  /\ UNCHANGED <<currentPage, totalDatasets, datasets, statistics, listResult,
                 statsInFlight, timerPending, toast>>
  /\ UNCHANGED dsFrame

\* the Previous button, shown when totalPages > 1, and the effect that the
\* changed page index triggers
DS_PreviousClick ==
  /\ page = "Datasets" /\ listPc # "unmounted"
  /\ totalPages > 1 /\ ~(currentPage = 0 \/ loading)
  /\ statsInFlight < MaxStatsLoads
  /\ currentPage' = (IF currentPage - 1 > 0 THEN currentPage - 1 ELSE 0)
  /\ DS_Effect(currentPage')
  /\ UNCHANGED <<totalDatasets, datasets, statistics, listResult, timerPending, toast>>
  /\ UNCHANGED dsFrame

\* the Next button and the effect that the changed page index triggers
DS_NextClick ==
  /\ page = "Datasets" /\ listPc # "unmounted"
  /\ totalPages > 1 /\ ~(currentPage >= totalPages - 1 \/ loading)
  /\ statsInFlight < MaxStatsLoads
  /\ currentPage' = Min(totalPages - 1, currentPage + 1)
  /\ DS_Effect(currentPage')
  /\ UNCHANGED <<totalDatasets, datasets, statistics, listResult, timerPending, toast>>
  /\ UNCHANGED dsFrame

\* loadDatasets after fetchOBISDatasets has settled
DS_ListSettled(out) ==
  /\ page = "Datasets" /\ listPc = "fetch"
  /\ IF out.status = "resolved"
       THEN /\ listResult' = out.value
            /\ loadingProgress' = 60
            /\ loadingMessage' = "Processing dataset information..."
            /\ listPc' = "delay"
            /\ UNCHANGED <<toast, timerPending>>
       ELSE /\ loadingProgress' = 0
            /\ loadingMessage' = "Failed to load datasets"
            /\ toast' = ErrorToast(OrElse(out.error.message, <<"Failed to load datasets">>))
            /\ ScheduleReset
            /\ listPc' = "idle"
            /\ listResult' = listResult
  /\ UNCHANGED <<loading, currentPage, totalDatasets, datasets, statistics, statsInFlight,
                 offsetRequested>>
  /\ UNCHANGED dsFrame

\* loadDatasets after await new Promise(resolve => setTimeout(resolve, 500))
DS_ListDelayElapsed ==
  /\ page = "Datasets" /\ listPc = "delay"
  /\ datasets' = listResult.datasets
  /\ totalDatasets' = listResult.total
  /\ loadingProgress' = 100
  /\ loadingMessage' = "Complete!"
  /\ toast' = SuccessToast(<<"Loaded ", ToString(listResult.datasets), " OBIS datasets">>)
  /\ ScheduleReset
  /\ listPc' = "idle"
  /\ UNCHANGED <<loading, currentPage, statistics, listResult, statsInFlight,
                 offsetRequested>>
  /\ UNCHANGED dsFrame

\* loadStatistics after fetchOBISStatistics has settled
DS_StatsSettled(out) ==
  /\ page = "Datasets" /\ statsInFlight > 0
  /\ statsInFlight' = statsInFlight - 1
  /\ IF out.status = "resolved"
       THEN /\ statistics' = out.value
            /\ loadingProgress' = 100
            /\ loadingMessage' = "Statistics loaded!"
       ELSE /\ loadingMessage' = "Statistics unavailable"
            /\ UNCHANGED <<statistics, loadingProgress>>
  /\ UNCHANGED <<loading, currentPage, totalDatasets, datasets, listPc, listResult,
                 offsetRequested, timerPending, toast>>
  /\ UNCHANGED dsFrame

\* the datasets the Browse tab lists
Listed == {DatasetList[i] : i \in 1..datasets}

\* the "Analyze with AI" button of a listed dataset
DS_AnalyzeListedClick(dataset) ==
  /\ dataset \in Listed
  /\ DS_AnalyzeClick(dataset)

\* the page after its first render, before its effect has run
DatasetsInit == ServiceIdle /\ PageStateInit("Datasets", FALSE, "unmounted")

\* one value and one error of the dataset analysis
DatasetsAnalysisOutcomes ==
  {Resolved(Text(MaxTextLen)), Rejected(Catch(CatchPrefix("dataset"), FetchErr))}

DatasetsNext ==
  \/ DS_Mount
  \/ DS_RefreshClick
  \/ DS_PreviousClick
  \/ DS_NextClick
  \/ \E out \in ListOutcomes : DS_ListSettled(out)
  \/ DS_ListDelayElapsed
  \/ \E out \in StatsOutcomes : DS_StatsSettled(out)
  \/ \E id \in DatasetIds : DS_AnalyzeListedClick(id)
  \/ \E out \in DatasetsAnalysisOutcomes : DS_AnalyzeSettled(out)
  \/ DS_AnalyzeDelayElapsed
  \/ ResetTimerFired

DatasetsSpec == DatasetsInit /\ [][DatasetsNext]_vars

----------------------------------------------------------------------------
(* The Dashboard status check (Dashboard.tsx, checkSystemStatus)           *)
(* The effect runs once after the first render: fetch of the OBIS          *)
(* statistics, then the read of the body.  new Date() reads the clock.     *)

MaxClock == 4
MaxStatRecords == 3

\* a response of https://api.obis.org/v3/statistics; records = 0 stands for
\* a body without a records field or with records: 0 (both falsy)
DashBody(p, obj, r) == [parses |-> p, isObject |-> obj, records |-> r]

DashBodies ==
  {DashBody(FALSE, FALSE, 0), DashBody(TRUE, FALSE, 0)} \cup
  {DashBody(TRUE, TRUE, r) : r \in 0..MaxStatRecords}

DashResponses ==
  {[t |-> "neterr", status |-> 0, body |-> DashBody(FALSE, FALSE, 0)]} \cup
  {[t |-> "http", status |-> st, body |-> b] : st \in {200, 404, 500}, b \in DashBodies}

\* Response.ok
Ok(resp) == resp.status >= 200 /\ resp.status <= 299

dashFrame == <<page, loadingProgress, loadingMessage, timerPending, toast, speciesAnalysis,
               regionAnalysis, aiResponses, inflight, selectedDataset, datasetAnalysis,
               analysisResults, shownObisData, analysisLocal, delivered,
               analysedDataset, svcVars, concVars, dsVars, apiVars>>

\* the catch clause followed by the finally clause of checkSystemStatus
DB_Catch ==
  /\ shownTitles' = shownTitles \cup {"Limited Connection"}
  /\ systemStatus' = [status |-> "offline", obis_connection |-> "unavailable",
                      last_update |-> now, records |-> "-"]
  /\ loading' = FALSE
  /\ handler' = "dash-done"

\* useEffect: checkSystemStatus up to await fetch(...)
DB_Mount ==
  /\ page = "Dashboard" /\ handler = "idle"
  /\ loading' = TRUE
  /\ handler' = "dash-fetch"
  /\ UNCHANGED <<systemStatus, shownTitles, dashResponse, now>>
  /\ UNCHANGED dashFrame

\* checkSystemStatus after the fetch has settled, up to await obisResponse.json()
DB_FetchSettled(resp) ==
  /\ page = "Dashboard" /\ handler = "dash-fetch"
  /\ IF resp.t = "http" /\ Ok(resp)
       THEN /\ shownTitles' = shownTitles \cup {"System Connected"}
            /\ dashResponse' = resp
            /\ handler' = "dash-json"
            /\ UNCHANGED <<systemStatus, loading>>
       ELSE /\ DB_Catch
            /\ UNCHANGED dashResponse
  /\ UNCHANGED now
  /\ UNCHANGED dashFrame

\* checkSystemStatus after obisResponse.json() has settled; reading
\* obisStats.records of a null body throws
DB_JsonSettled ==
  /\ page = "Dashboard" /\ handler = "dash-json"
  /\ IF dashResponse.body.parses /\ dashResponse.body.isObject
       THEN /\ systemStatus' =
                 [status |-> "connected", obis_connection |-> "active",
                  last_update |-> now,
                  records |-> IF dashResponse.body.records # 0
                                THEN ToString(dashResponse.body.records)
                                ELSE "Available"]
            /\ loading' = FALSE
            /\ handler' = "dash-done"
            /\ UNCHANGED shownTitles
       ELSE DB_Catch
  /\ UNCHANGED <<dashResponse, now>>
  /\ UNCHANGED dashFrame

\* time passes
DB_Tick ==
  /\ page = "Dashboard" /\ now < MaxClock
  /\ now' = now + 1
  /\ UNCHANGED <<systemStatus, shownTitles, dashResponse, loading, handler>>
  /\ UNCHANGED dashFrame

DashboardInit == ServiceIdle /\ PageStateInit("Dashboard", TRUE, "idle")

DashboardNext ==
  \/ DB_Mount
  \/ \E resp \in DashResponses : DB_FetchSettled(resp)
  \/ DB_JsonSettled
  \/ DB_Tick

DashboardSpec == DashboardInit /\ [][DashboardNext]_vars

----------------------------------------------------------------------------
(* ApiService.request (lib/api.ts)                                         *)
(* One action per await: the call up to fetch, the continuation after the  *)
(* fetch has settled, the continuation after response.json() has settled.  *)
(* An endpoint is a sequence of fragments; error undefined is <<>>.        *)

API_BASE_URL == "http://localhost:8000/api/v1"

Endpoints == {<<"/", "health">>, <<"health">>, <<"/", "species/search">>}
Methods == {"GET", "POST"}

\* endpoint.startsWith('/') ? endpoint : `/${endpoint}`
NormalizedEndpoint(endpoint) ==
  IF Head(endpoint) = "/" THEN endpoint ELSE <<"/">> \o endpoint

\* the body of a backend response; detail = <<>> stands for a body without a
\* detail field
ApiBody(p, obj, d) == [parses |-> p, isObject |-> obj, detail |-> d]

ApiBodies ==
  {ApiBody(FALSE, FALSE, <<>>), ApiBody(TRUE, FALSE, <<>>),
   ApiBody(TRUE, TRUE, <<>>), ApiBody(TRUE, TRUE, <<"Not Found">>)}

ApiResponses ==
  {[t |-> "neterr", thrown |-> e, status |-> 0, body |-> ApiBody(FALSE, FALSE, <<>>)] :
      e \in {FetchErr, NonError}} \cup
  {[t |-> "http", thrown |-> NoError, status |-> st, body |-> b] :
      st \in {200, 404, 500}, b \in ApiBodies}

\* the ApiResponse<T> object
ApiResponse(d, e, st) == [data |-> d, error |-> e, status |-> st]

\* catch (error) { return { error: error instanceof Error ? error.message : 'Network error', status: 0 } }
ApiCatch(e) ==
  Resolved(ApiResponse("undefined", IF e.isError THEN e.message ELSE <<"Network error">>, 0))

apiFrame == <<page, handler, loading, loadingProgress, loadingMessage, timerPending, toast,
              speciesAnalysis, regionAnalysis, aiResponses, inflight, selectedDataset,
              datasetAnalysis, analysisResults, shownObisData, analysisLocal, delivered,
              analysedDataset, svcVars, concVars, dsVars, dashVars>>

\* request(endpoint, options) up to await fetch(url, ...)
Api_Request(endpoint, method) ==
  /\ page = "ApiTest" /\ apiPc \in {"idle", "done"}
  /\ apiRequest' = [url |-> <<API_BASE_URL>> \o NormalizedEndpoint(endpoint),
                    method |-> method]
  /\ apiPc' = "fetch"
  /\ apiResponse' = NoValue
  /\ apiResult' = Pending
  /\ UNCHANGED apiFrame

\* request after the fetch has settled, up to await response.json()
Api_FetchSettled(resp) ==
  /\ page = "ApiTest" /\ apiPc = "fetch"
  /\ IF resp.t = "http"
       THEN /\ apiResponse' = resp
            /\ apiPc' = "json"
            /\ UNCHANGED apiResult
       ELSE /\ apiResult' = ApiCatch(resp.thrown)
            /\ apiPc' = "done"
            /\ UNCHANGED apiResponse
  /\ UNCHANGED apiRequest
  /\ UNCHANGED apiFrame

\* request after response.json() has settled: the return of the try block,
\* or the catch clause when the body does not parse or data.detail is read
\* of null
Api_JsonSettled ==
  /\ page = "ApiTest" /\ apiPc = "json"
  /\ apiResult' =
       IF ~apiResponse.body.parses
         THEN ApiCatch(SyntaxErr)
       ELSE IF Ok(apiResponse)
         THEN Resolved(ApiResponse(IF apiResponse.body.isObject THEN "object" ELSE "null",
                                   <<>>, apiResponse.status))
       ELSE IF apiResponse.body.isObject
         THEN Resolved(ApiResponse("undefined",
                                   OrElse(apiResponse.body.detail, <<"An error occurred">>),
                                   apiResponse.status))
       ELSE ApiCatch(TypeErr)
  /\ apiPc' = "done"
  /\ UNCHANGED <<apiResponse, apiRequest>>
  /\ UNCHANGED apiFrame

ApiInit == ServiceIdle /\ PageStateInit("ApiTest", FALSE, "idle")

ApiNext ==
  \/ \E endpoint \in Endpoints, method \in Methods : Api_Request(endpoint, method)
  \/ \E resp \in ApiResponses : Api_FetchSettled(resp)
  \/ Api_JsonSettled

ApiSpec == ApiInit /\ [][ApiNext]_vars

----------------------------------------------------------------------------
(* Two interleaved invocations of the service                              *)
(* obisGeminiService is one object shared by every caller, and a caller    *)
(* can invoke it while an earlier invocation is suspended at an await.     *)
(* The service variables above are the arguments and locals of the         *)
(* invocation whose continuation runs next; `other` holds those of the     *)
(* suspended one.  The object has no field that a method assigns: apiKey   *)
(* and the base URLs are set once at construction.                         *)

MaxConcRecords == 1

\* the event loop runs a continuation of the other invocation next: the
\* arguments and locals are per invocation, so each invocation finds its own
\* again when it resumes
Switch_SharedObisData ==
  /\ other' = Locals
  /\ self' = 3 - self
  /\ op' = other.op /\ pc' = other.pc /\ step' = other.step
  /\ scientificName' = other.scientificName /\ geometry' = other.geometry
  /\ description' = other.description /\ limit' = other.limit
  /\ obisData' = obisData
  /\ aiAnalysis' = other.aiAnalysis /\ insights' = other.insights
  /\ reqs' = other.reqs /\ resps' = other.resps /\ settled' = other.settled
  /\ UNCHANGED apiKey
  /\ UNCHANGED pageVars

Switch ==
  /\ other' = Locals
  /\ self' = 3 - self
  /\ op' = other.op /\ pc' = other.pc /\ step' = other.step
  /\ scientificName' = other.scientificName /\ geometry' = other.geometry
  /\ description' = other.description /\ limit' = other.limit
  /\ obisData' = other.obisData
  /\ aiAnalysis' = other.aiAnalysis /\ insights' = other.insights
  /\ reqs' = other.reqs /\ resps' = other.resps /\ settled' = other.settled
  /\ UNCHANGED apiKey
  /\ UNCHANGED pageVars

\* the responses the two remote services give in the interleaved runs
ConcObisResponses(lim) ==
  {r \in ObisResponses(lim) :
     \/ r.t = "neterr" /\ r.isError
     \/ r.t = "http" /\ ~r.ok /\ r.status = 500
     \/ /\ r.t = "http" /\ r.ok /\ r.body.parses /\ r.body.hasResults
        /\ Len(r.body.results) <= MaxConcRecords
        /\ r.body.total = Len(r.body.results)}

ConcGeminiResponses ==
  {r \in GeminiResponses :
     \/ r.t = "neterr" /\ r.isError
     \/ r.t = "http" /\ r.ok /\ r.body.cands = "text" /\ r.body.text = MaxTextLen}

ConcNext ==
  \/ \E name \in Names, lim \in SpeciesLimits : CallSearchSpeciesWithAI(name, lim)
  \/ \E id \in DatasetIds : CallAnalyzeDatasetWithAI(id)
  \/ \E geom \in Geometries, descr \in Descriptions :
        CallGetMarineInsightsForRegion(geom, descr)
  \/ \E name \in Names \ {""} : CallQuickSpeciesLookup(name)
  \/ \E resp \in ConcObisResponses(limit) : ObisResponseSpecies(resp)
  \/ \E resp \in ConcObisResponses(limit) : ObisResponseRegion(resp)
  \/ \E resp \in ConcObisResponses(limit) : ObisResponseQuick(resp)
  \/ \E resp \in ConcGeminiResponses : GeminiResponseSpecies(resp)
  \/ \E resp \in ConcGeminiResponses : GeminiResponseRegion(resp)
  \/ \E resp \in ConcGeminiResponses : GeminiResponseQuick(resp)
  \/ \E resp \in ConcGeminiResponses : GeminiResponseDataset(resp)
  \/ Switch

ConcSpec == Init /\ [][ConcNext]_vars

----------------------------------------------------------------------------
(* One invocation with malformed text-generation responses                 *)
(* The text service also answers 200 with a first part that has no text    *)
(* field; the data service answers as in the interleaved runs.             *)

MalformedGeminiResponses ==
  ConcGeminiResponses \cup
  {[t |-> "http", isError |-> FALSE, ok |-> TRUE, status |-> 200, body |-> b] :
      b \in {GeminiBody(TRUE, Undefined, "absent", NoText),
             GeminiBody(TRUE, Undefined, "empty", NoText),
             GeminiBody(TRUE, Undefined, "nocontent", NoText),
             NoTextBody}}

\* a network request of the invocation returns a response or an error
MalformedResponse ==
  \/ \E resp \in ConcObisResponses(limit) : ObisResponseSpecies(resp)
  \/ \E resp \in ConcObisResponses(limit) : ObisResponseRegion(resp)
  \/ \E resp \in ConcObisResponses(limit) : ObisResponseQuick(resp)
  \/ \E resp \in MalformedGeminiResponses : GeminiResponseSpecies(resp)
  \/ \E resp \in MalformedGeminiResponses : GeminiResponseRegion(resp)
  \/ \E resp \in MalformedGeminiResponses : GeminiResponseQuick(resp)
  \/ \E resp \in MalformedGeminiResponses : GeminiResponseDataset(resp)

MalformedNext ==
  \/ \E name \in Names, lim \in SpeciesLimits : CallSearchSpeciesWithAI(name, lim)
  \/ \E id \in DatasetIds : CallAnalyzeDatasetWithAI(id)
  \/ \E geom \in Geometries, descr \in Descriptions :
        CallGetMarineInsightsForRegion(geom, descr)
  \/ \E name \in Names \ {""} : CallQuickSpeciesLookup(name)
  \/ MalformedResponse

MalformedSpec == Init /\ [][MalformedNext]_vars

\* the same invocation when every network request eventually returns: a
\* pending fetch settles, and its continuation then runs
LiveSpec == Init /\ [][MalformedNext]_vars /\ WF_vars(MalformedResponse)

----------------------------------------------------------------------------
(* Properties of one invocation (specification Spec)                       *)

GeminiIdx == {i \in 1..Len(reqs) : reqs[i].svc = "gemini"}
ObisIdx == {i \in 1..Len(reqs) : reqs[i].svc = "obis"}

\* a text-generation call fails: transport failure, non-success status, or a
\* body from which no text can be read
GeminiCallFailed(resp) ==
  resp.t = "neterr" \/ ~resp.ok \/ ~resp.body.parses \/ resp.body.cands # "text"

\* a data-service call fails: transport failure or non-success status
ObisCallFailed(resp) == resp.t = "neterr" \/ ~resp.ok

DataDrivenTemplates ==
  {"species-overall", "species-summary"} \cup {Aspects[k] : k \in 1..NumAspects}

\* the data service answered the species search with total = 0 and no results
ZeroRecords ==
  /\ op = "species" /\ Len(resps) >= 1
  /\ resps[1].t = "http" /\ resps[1].ok /\ resps[1].body.parses
  /\ resps[1].body.hasResults
  /\ resps[1].body.total = 0 /\ resps[1].body.results = <<>>

\* C1: when the data service reports zero occurrence records, species
\* analysis does not fail on that account and sends a single general-knowledge
\* prompt, none of the data-driven overall / aspect / summary prompts.
C1_ZeroRecordsTakeFallback ==
  ZeroRecords =>
    /\ Cardinality(GeminiIdx) <= 1
    /\ \A i \in GeminiIdx : reqs[i].prompt.template \notin DataDrivenTemplates
    /\ (pc = "rejected" => Len(resps) >= 2 \/ KeyMissing)

\* C2: with an empty or placeholder API key every operation rejects with the
\* configuration error and issues no network request at all.
C2_NoRequestWithoutKey ==
  (KeyMissing /\ op # "none") =>
    /\ reqs = <<>>
    /\ pc = "rejected"
    /\ settled.error = Catch(CatchPrefix(op), ConfigError)

C4_DatasetPromptsUseFetchedRecords ==
  op = "dataset" =>
    \A i \in GeminiIdx :
      /\ \E j \in ObisIdx : j < i /\ reqs[j].path = "occurrence"
      /\ (\E j \in ObisIdx : j < i /\ j <= Len(resps) /\ resps[j].body.hasResults
                              /\ resps[j].body.results # <<>>)
            => reqs[i].prompt.sample # <<>>

\* C5: a successful analyzeDatasetWithAI(datasetId) has made one dataset
\* fetch and seven text-generation requests (overall, five aspects, summary)
\* and resolves to a structured result with obis_data, ai_analysis, five
\* insights and summary.
C5_DatasetResultIsStructured ==
  (op = "dataset" /\ pc = "resolved") =>
    /\ Cardinality(ObisIdx) = 1
    /\ Cardinality(GeminiIdx) = NumAspects + 2
    /\ settled.value.shape = "structured"
    /\ Len(settled.value.insights) = NumAspects

C7_ResultEmbedsFetchedData ==
  (op = "species" /\ pc = "resolved") =>
    /\ settled.value.obis_data = resps[1].body
    /\ settled.value.obis_data.total = resps[1].body.total
    /\ settled.value.obis_data.results = resps[1].body.results
    /\ reqs[2].prompt = SpeciesPrompt(resps[1].body, scientificName)
    /\ \A k \in 1..NumAspects : reqs[2 + k].prompt = AspectPrompt(k, resps[1].body)
    /\ reqs[NumAspects + 3].prompt.total = resps[1].body.total

C7_Witness ==
  /\ op = "species" /\ pc = "resolved"
  /\ resps[1].body.total = 3 /\ Len(resps[1].body.results) = 2
  /\ settled.value.obis_data.total = 3

\* C8 as stated: with at least one occurrence record, every narrative field
\* of the result (ai_analysis, the five insights, summary) is a non-empty
\* string, whatever HTTP-ok responses the text service gave.
C8_NarrativesNonEmpty ==
  (op = "species" /\ pc = "resolved" /\ Len(resps[1].body.results) >= 1) =>
    /\ settled.value.ai_analysis > 0
    /\ \A k \in 1..NumAspects : settled.value.insights[k] > 0
    /\ settled.value.summary > 0

\* C8 amended: every narrative field of the result is exactly the text of the
\* response to its own prompt (overall, k-th aspect, summary), so it is
\* non-empty exactly when the text service returned a non-empty text for it.
C8_NarrativesAreResponseTexts ==
  (op = "species" /\ pc = "resolved") =>
    /\ Len(resps) = NumAspects + 3
    /\ settled.value.ai_analysis = resps[2].body.text
    /\ Len(settled.value.insights) = NumAspects
    /\ \A k \in 1..NumAspects :
         /\ settled.value.insights[k] = resps[2 + k].body.text
         /\ reqs[2 + k].prompt.template = Aspects[k]
    /\ settled.value.summary = resps[NumAspects + 3].body.text

C8_Witness ==
  /\ op = "species" /\ pc = "resolved" /\ Len(resps[1].body.results) >= 1
  /\ settled.value.ai_analysis = MaxTextLen
  /\ settled.value.insights[2] = 0
  /\ settled.value.insights[3] = MaxTextLen
  /\ settled.value.summary = 0

\* C10: quick lookup issues one data-service request with limit 20 for the
\* name and then at most one text-generation request, the general-knowledge
\* prompt when the reported total is 0 and the short-summary prompt embedding
\* the first records otherwise; it resolves to the text of that one response.
C10_QuickLookupChain ==
  (op = "quick") =>
    /\ ObisIdx = {1}
    /\ reqs[1].limit = 20 /\ reqs[1].offset = 0
    /\ reqs[1].scientificname = scientificName /\ reqs[1].geometry = Absent
    /\ GeminiIdx \subseteq {2}
    /\ Len(reqs) = 2 =>
         /\ Len(resps) >= 1 /\ ~ObisCallFailed(resps[1])
         /\ IF resps[1].body.total = 0
              THEN reqs[2].prompt.template = "quick-general-knowledge"
              ELSE /\ reqs[2].prompt.template = "quick-summary"
                   /\ reqs[2].prompt.total = resps[1].body.total
                   /\ reqs[2].prompt.sample = SubSeq(resps[1].body.results, 1,
                                                     Min(3, Len(resps[1].body.results)))
         /\ reqs[2].prompt.query = scientificName
    /\ pc = "resolved" =>
         /\ Len(reqs) = 2 /\ Len(resps) = 2
         /\ settled.value.shape = "text"
         /\ settled.value.text = resps[2].body.text

C10_Witness ==
  /\ op = "quick" /\ pc = "resolved"
  /\ resps[1].body.total = 0 /\ Len(resps[1].body.results) = 2
  /\ reqs[2].prompt.template = "quick-general-knowledge"
  /\ settled.value.text = MaxTextLen

\* C11: region analysis issues exactly one occurrence request, filtered by
\* the geometry, with limit 50 and without a species name; after it at most one
\* text-generation request, the single region prompt built from the fetched
\* data (never an aspect or summary prompt); and when it resolves it has issued
\* exactly these two requests and its value is the bare text of the response to
\* the second.
C11_RegionChain ==
  (op = "region") =>
    /\ ObisIdx = {1}
    /\ reqs[1].path = "occurrence"
    /\ reqs[1].limit = 50 /\ reqs[1].offset = 0
    /\ reqs[1].geometry = geometry /\ reqs[1].geometry # Absent
    /\ reqs[1].scientificname = Absent
    /\ GeminiIdx \subseteq {2}
    /\ \A i \in GeminiIdx : reqs[i].prompt.template \notin DataDrivenTemplates
    /\ Len(reqs) = 2 =>
         /\ Len(resps) >= 1 /\ ~ObisCallFailed(resps[1])
         /\ reqs[2].prompt.template = "region"
         /\ reqs[2].prompt.geometry = geometry
         /\ reqs[2].prompt.data = resps[1].body
    /\ pc = "resolved" =>
         /\ Len(reqs) = 2 /\ Len(resps) = 2
         /\ settled.value.shape = "text"
         /\ settled.value.text = resps[2].body.text

C11_Witness ==
  /\ op = "region" /\ pc = "resolved"
  /\ Len(reqs) = 2 /\ reqs[1].limit = 50
  /\ Len(resps[1].body.results) = 2
  /\ settled.value.text = MaxTextLen

\* C14 as stated: a successful species analysis on a non-empty record set
\* has issued exactly six text-generation requests.
C14_SixTextRequests ==
  (op = "species" /\ pc = "resolved" /\ Len(resps[1].body.results) >= 1) =>
    Cardinality(GeminiIdx) = 6

\* C14 amended: a successful species analysis on a non-empty record set has
\* issued exactly seven text-generation requests: the overall prompt, the five
\* aspect prompts and the summary prompt, in this order.
C14_SevenTextRequests ==
  (op = "species" /\ pc = "resolved" /\ Len(resps[1].body.results) >= 1) =>
    /\ Cardinality(GeminiIdx) = 7
    /\ GeminiIdx = 2..8
    /\ [i \in 1..7 |-> reqs[i + 1].prompt.template] =
         <<"species-overall", "species_diversity", "geographic_distribution",
           "conservation_status", "ecological_significance",
           "threats_and_recommendations", "species-summary">>

C14_Witness ==
  /\ op = "species" /\ pc = "resolved"
  /\ Len(resps[1].body.results) = 3
  /\ Cardinality(GeminiIdx) = 7
  /\ Len(reqs) = 8

\* the i-th request of the invocation has been answered with a usable response
Completed(i) ==
  /\ i <= Len(resps)
  /\ IF reqs[i].svc = "obis" THEN ~ObisCallFailed(resps[i])
                             ELSE ~GeminiCallFailed(resps[i])

ExpectedTextError(resp) ==
  IF resp.t = "http"
    THEN Err(<<"Gemini API Error: ",
               IF resp.body.parses /\ resp.body.errMessage # Undefined
                 THEN resp.body.errMessage ELSE "Unknown error">>)
    ELSE Err(<<"Failed to connect to Gemini API">>)

\* C17: when the text-generation service answers with a non-success status,
\* or the transport fails with a value that is not an Error, generateContent
\* does not resolve: the awaiting operation is rejected, with the service's own
\* error message if the payload has one and the generic fallback otherwise,
\* respectively with the connection-failure message.
C17_FailureMessages ==
  \A i \in 1..Len(resps) :
    (/\ reqs[i].svc = "gemini"
     /\ \/ resps[i].t = "http" /\ ~resps[i].ok
        \/ resps[i].t = "neterr" /\ ~resps[i].isError) =>
      /\ pc = "rejected" /\ Len(reqs) = i
      /\ settled.status = "rejected"
      /\ settled.error = Catch(CatchPrefix(op), ExpectedTextError(resps[i]))

SampleSize(template) ==
  IF template = "species-overall" THEN 5
  ELSE IF template = "quick-summary" THEN 3
  ELSE IF template \in {Aspects[k] : k \in 1..NumAspects} THEN 10
  ELSE 0

\* C22: in species analysis and quick lookup the occurrence request asks for
\* as many records as the sample limit (the limit argument, 100 by default; 20
\* in quick lookup), and every prompt embeds exactly the leading records of the
\* retrieved page up to its sample size (5 overall, 10 per aspect, 3 in quick
\* lookup, none otherwise): never more than 10 and never more than retrieved.
C22_SampleSizes ==
  (op \in {"species", "quick"}) =>
    /\ reqs[1].svc = "obis" /\ reqs[1].limit = limit
    /\ op = "quick" => limit = 20
    /\ op = "species" => limit \in {50, 100}
    /\ \A i \in GeminiIdx :
         LET retrieved == resps[1].body.results
             sample == reqs[i].prompt.sample
         IN /\ Len(sample) <= 10
            /\ Len(sample) <= Len(retrieved)
            /\ Len(sample) = Min(SampleSize(reqs[i].prompt.template), Len(retrieved))
            /\ \A j \in 1..Len(sample) : sample[j] = retrieved[j]

C22_Witness ==
  /\ op = "species" /\ limit = 100 /\ Len(reqs) >= 3
  /\ Len(resps[1].body.results) = 11
  /\ Len(reqs[2].prompt.sample) = 5
  /\ Len(reqs[3].prompt.sample) = 10

\* the failure that ended the invocation, as thrown inside the try block of
\* the operation: by the fetch of the data service, by reading the fetched
\* data, or by generateContent
UnderlyingFailure ==
  IF resps = <<>> THEN ConfigError
  ELSE LET last == resps[Len(resps)] IN
    IF reqs[Len(resps)].svc = "gemini" THEN GenerateContentOutcome(last).error
    ELSE IF ~FetchOBISSpeciesOutcome(last).ok THEN FetchOBISSpeciesOutcome(last).error
    ELSE IF KeyMissing /\ (last.body.hasResults \/ op = "region" \/ last.body.total = 0)
      THEN ConfigError
    ELSE TypeErr

C24_SpeciesRequestsFiltered ==
  (op = "species") =>
    \A i \in ObisIdx :
      /\ reqs[i].scientificname # Absent
      /\ reqs[i].scientificname # ""

----------------------------------------------------------------------------
(* Properties of interleaved invocations (specification ConcSpec)          *)

\* what an invocation with arguments and locals l has requested and settled
\* with is built from its own arguments and the responses to its own requests
OwnOutcome(l) ==
  /\ l.op \in {"species", "region", "quick"} =>
        l.reqs[1] = ObisRequest(l.scientificName, l.geometry, l.limit)
  /\ (l.op = "species" /\ Len(l.reqs) >= 2) =>
        l.reqs[2].prompt = SpeciesPrompt(l.resps[1].body, l.scientificName)
  /\ (l.op = "region" /\ Len(l.reqs) >= 2) =>
        l.reqs[2].prompt = RegionPrompt(l.geometry, l.description, l.resps[1].body)
  /\ l.pc = "resolved" =>
        /\ Len(l.reqs) = Len(l.resps)
        /\ l.settled.value =
             IF l.op = "species"
               THEN Structured(l.resps[1].body, l.resps[2].body.text,
                               [k \in 1..NumAspects |-> l.resps[2 + k].body.text],
                               l.resps[NumAspects + 3].body.text)
               ELSE Text(l.resps[Len(l.resps)].body.text)
  /\ l.pc = "rejected" =>
        /\ Len(l.reqs) = Len(l.resps)
        /\ l.settled.status = "rejected"
        /\ \/ KeyMissing
           \/ /\ l.resps # <<>>
              /\ LET last == l.resps[Len(l.resps)] IN
                   IF l.reqs[Len(l.resps)].svc = "obis"
                     THEN l.settled.error =
                            Catch(CatchPrefix(l.op), FetchOBISSpeciesOutcome(last).error)
                     ELSE l.settled.error =
                            Catch(CatchPrefix(l.op), GenerateContentOutcome(last).error)

\* C12: two invocations interleaved at their awaits do not affect each other.
\* The requests and the result or error of each are built from its own
\* arguments and the responses to its own requests; a step of one invocation
\* leaves the arguments and locals of the suspended one as they are, resuming
\* an invocation gives it back exactly the locals it was suspended with, and
\* no step writes the state the two share (the API key).
C12_NoInterference ==
  /\ [](OwnOutcome(Locals) /\ OwnOutcome(other))
  /\ [][/\ apiKey' = apiKey
        /\ self' = self => other' = other
        /\ self' # self => (Locals' = other /\ other' = Locals)]_vars

C12_Witness ==
  /\ op = "species" /\ pc = "resolved"
  /\ Len(settled.value.obis_data.results) = 1
  /\ other.op = "quick" /\ other.pc = "awaitGemini"
  /\ other.obisData.results = <<>>
  /\ other.scientificName = scientificName

\* the i-th requests of invocations a and b are prompts of the same template
\* built for the same name, description and geometry from the same fetched
\* records and, for the summary, the same overall narrative
SamePromptInputs(a, b, i) ==
  /\ a.op = b.op /\ a.op \in {"species", "region", "quick"}
  /\ i <= Len(a.reqs) /\ i <= Len(b.reqs)
  /\ a.reqs[i].svc = "gemini" /\ b.reqs[i].svc = "gemini"
  /\ a.reqs[i].prompt.template = b.reqs[i].prompt.template
  /\ a.scientificName = b.scientificName
  /\ a.description = b.description /\ a.geometry = b.geometry
  /\ a.resps[1].body = b.resps[1].body
  /\ a.reqs[i].prompt.template = "species-summary" =>
        a.resps[2].body.text = b.resps[2].body.text

----------------------------------------------------------------------------
(* Properties of malformed responses (specification MalformedSpec)         *)

\* an HTTP-ok text-generation response whose body parses but has no
\* candidates, or whose first candidate lacks content, parts or the text field
Malformed(resp) ==
  resp.t = "http" /\ resp.ok /\ resp.body.parses /\ resp.body.cands # "text"

\* C16: every HTTP-ok but malformed text-generation response makes
\* generateContent reject, so that the awaiting operation is rejected with that
\* response as its last; and no operation resolves with a narrative that is
\* not a string.
C16_MalformedAlwaysRejects ==
  /\ \A i \in 1..Len(resps) :
       (reqs[i].svc = "gemini" /\ Malformed(resps[i])) =>
         pc = "rejected" /\ Len(reqs) = i
  /\ pc = "resolved" =>
       IF settled.value.shape = "text" THEN settled.value.text # NoText
       ELSE /\ settled.value.ai_analysis # NoText
            /\ \A k \in 1..Len(settled.value.insights) : settled.value.insights[k] # NoText
            /\ settled.value.summary # NoText

----------------------------------------------------------------------------
(* Termination (specification LiveSpec)                                    *)

\* C19: when every network request eventually returns, every invocation of
\* a public operation eventually settles, resolved or rejected, and it never
\* issues more than eight network requests; dataset analysis settles after at
\* most one.
C19_EventuallySettles ==
  /\ [](Len(reqs) <= NumAspects + 3)
  /\ [](op = "dataset" => Len(reqs) <= 1)
  /\ (op # "none") ~> (pc \in {"resolved", "rejected"})

C19_Witness ==
  /\ op = "dataset" /\ pc = "resolved"
  /\ Len(reqs) = 1 /\ Len(resps) = 1
  /\ settled.status = "resolved"

----------------------------------------------------------------------------
(* Properties of the page handlers (specification PageSpec)                *)

\* the step in which a handler's await of the service rejects and its catch
\* clause runs
Caught ==
  /\ handler \in {"ai-species", "ds-analyze", "an-species"}
  /\ handler' # handler
  /\ delivered'.status = "rejected"

ShownMessage == OrElse(delivered'.error.message, <<"Unknown error">>)

\* C9 as stated: when an analysis throws, the page shows the error's message
\* and every result state that held a successful result still holds it.
C9_FailureKeepsPriorResult ==
  [][Caught =>
       /\ toast'.level = "error" /\ toast'.message = delivered'.error.message
       /\ (speciesAnalysis.kind = "result" => speciesAnalysis' = speciesAnalysis)
       /\ (datasetAnalysis.kind = "result" => datasetAnalysis' = datasetAnalysis)
       /\ (analysisResults.kind = "result" =>
              analysisResults' = analysisResults /\ shownObisData' = shownObisData)]_vars

\* C9 amended: when an analysis throws, the page shows the error's message in
\* a toast; the Analytics page leaves analysisResults and obisData as they
\* were, while the AI Integration and Datasets pages replace speciesAnalysis /
\* datasetAnalysis by an object holding only the error message, so a prior
\* successful result is no longer held or displayed there.
C9_FailureShowsMessage ==
  [][Caught =>
       /\ toast'.level = "error" /\ toast'.message = delivered'.error.message
       /\ (page = "Analytics" =>
              analysisResults' = analysisResults /\ shownObisData' = shownObisData)
       /\ (page = "AIIntegration" => speciesAnalysis' = ErrorState(ShownMessage))
       /\ (page = "Datasets" => datasetAnalysis' = ErrorState(ShownMessage))]_vars

C9_Witness ==
  /\ page = "Analytics" /\ handler = "idle"
  /\ delivered.status = "rejected"
  /\ toast = ErrorToast(delivered.error.message)
  /\ analysisResults.kind = "result" /\ shownObisData.total = 1

\* C20: after a successful region analysis on the AI Integration page the
\* non-empty narrative string the service returned is the text the region
\* result panel shows.
C20_RegionPanelShowsNarrative ==
  (/\ page = "AIIntegration" /\ handler = "idle"
   /\ regionAnalysis.kind = "result"
   /\ delivered.status = "resolved" /\ delivered.value.shape = "text"
   /\ delivered.value.text > 0) =>
    /\ RegionPanel.visible
    /\ RegionPanel.analysis = delivered.value.text

\* C21: on the Analytics page, once an analysis with a non-empty narrative has
\* succeeded and its handler has stored the result, the page displays that
\* analysis only: after a regional analysis the regional panel with its
\* narrative and not the species panel, after a species analysis the species
\* panel with the record count and the narrative of that same analysis.
C21_DisplayReflectsLatest ==
  (/\ page = "Analytics" /\ handler = "idle"
   /\ delivered.status = "resolved") =>
    IF delivered.value.shape = "text"
      THEN delivered.value.text > 0 =>
             /\ RegionalPanelShown /\ ~SpeciesPanelShown
             /\ analysisResults.value.ai_analysis = delivered.value.text
      ELSE /\ SpeciesPanelShown /\ ~RegionalPanelShown
           /\ shownObisData.total = delivered.value.obis_data.total
           /\ analysisResults.value.ai_analysis = delivered.value.ai_analysis

----------------------------------------------------------------------------
(* Properties of the Datasets page (specification DatasetsSpec)            *)

\* C26: whenever the analysis tab shows an analysis result under the header
\* of the selected dataset, the result was produced by the analysis of that
\* dataset.
C26_AnalysisOfSelected ==
  (page = "Datasets" /\ selectedDataset # NoSelection /\ datasetAnalysis # NullState)
    => analysedDataset = selectedDataset

\* C27: while a load is running, loadingProgress does not go from a value to
\* a smaller non-zero value: it decreases only when a load starts, when a
\* failure or the final reset sets it to 0.
C27_ProgressNeverDecreases ==
  [][(page = "Datasets" /\ loading /\ loading' /\ loadingProgress' # 0)
       => loadingProgress' >= loadingProgress]_vars

\* C28: the page index is within the pages that exist, and the offset
\* requested from the data service is the page index times the page size.
C28_PageIndexInRange ==
  page = "Datasets" =>
    /\ 0 <= currentPage
    /\ totalPages >= 1 => currentPage < totalPages
    /\ listPc = "fetch" => offsetRequested = currentPage * datasetsPerPage

----------------------------------------------------------------------------
(* Properties of the Dashboard (specification DashboardSpec)               *)

\* C29: when the status check has ended, loading is false and systemStatus
\* is connected or offline, and the "System Connected" notification has been
\* shown only if the final status is connected.
C29_StatusCheckOutcome ==
  (page = "Dashboard" /\ handler = "dash-done") =>
    /\ ~loading
    /\ systemStatus.status \in {"connected", "offline"}
    /\ "System Connected" \in shownTitles => systemStatus.status = "connected"

----------------------------------------------------------------------------
(* Properties of ApiService.request (specification ApiSpec)                *)

\* an HTTP response was obtained, it was ok and its body parsed
OkAndParsed ==
  apiResponse # NoValue /\ Ok(apiResponse) /\ apiResponse.body.parses

\* C30: request never rejects; error is undefined exactly when the response
\* was ok and its body parsed, data is defined only then, and status is 0
\* exactly when no HTTP response was obtained, otherwise the HTTP status.
C30_RequestOutcome ==
  (page = "ApiTest" /\ apiPc = "done") =>
    /\ apiResult.status = "resolved"
    /\ apiResult.value.error = <<>> <=> OkAndParsed
    /\ apiResult.value.data # "undefined" => OkAndParsed
    /\ apiResult.value.status = 0 <=> apiResponse = NoValue
    /\ apiResponse # NoValue => apiResult.value.status = apiResponse.status

----------------------------------------------------------------------------
(* Properties of the AI Integration page (specification AIPageSpec)        *)

\* C25: on the AI Integration page at most one of the six operations is in
\* flight at any time, loading is true exactly while one is, and after every
\* operation, whether it succeeds or fails, loading returns to false.
C25_LoadingSerialises ==
  /\ [](Cardinality(inflight) <= 1 /\ (loading <=> inflight # {}))
  /\ (loading \/ inflight # {}) ~> (~loading /\ inflight = {})

\* an operation has failed while loading was true and loading is false again
C25_Witness ==
  /\ page = "AIIntegration" /\ ~loading /\ inflight = {}
  /\ delivered.status = "rejected" /\ toast.level = "error"
  /\ aiResponses.insights.kind = "error" /\ aiResponses.chat.kind = "result"

====
